---- MODULE Spec2Model ----
(***************************************************************************)
(* Model of src/handler.py (AI Study Assistant Lambda handlers).           *)
(*                                                                         *)
(* Text is a sequence of one-character strings.  The table store is one    *)
(* variable per DynamoDB table, the blob store is `blobs`, and `response`  *)
(* is the API Gateway response of the last handler that ran.  Each handler *)
(* is one action; its inputs (caller identity, path parameter, body, the   *)
(* reply of the language model, the wall clock) are drawn with \E in the   *)
(* next-state relations.                                                   *)
(* The table store accepts every item a handler writes; the blob store's   *)
(* put and delete may fail where a handler's input says so.                *)
(* `effects` holds what the last handler asked of its collaborators: the   *)
(* blobs it fetched and the model calls it issued.  `calls` holds the      *)
(* invocations in flight where handlers run concurrently.                  *)
(***************************************************************************)
EXTENDS Integers, Sequences, FiniteSets, TLC

VARIABLES documents, blobs, summaries, flashcards, quizzes, chats,
          clock, nextId, request, response, observed, pureIn, pureOut,
          effects, calls

vars == <<documents, blobs, summaries, flashcards, quizzes, chats,
          clock, nextId, request, response, observed, pureIn, pureOut,
          effects, calls>>

tables == <<documents, blobs, summaries, flashcards, quizzes, chats>>

(***************************************************************************)
(* Bounds of the model.                                                    *)
(***************************************************************************)
MaxChars == 4
MaxDocs == 1
MaxQuizzes == 1
MaxAttempts == 2
MaxGraded == 5
MaxCreateIds == 3
MaxRegrades == 3
MaxRegraded == 3
MaxRegradeIds == 6
MaxChats == 21
MaxArtifacts == 1
MaxSpecIds == 4
MaxTies == 1
MaxIds == 5
MaxCalls == 2
MaxUploadIds == 4
MaxAnonymousIds == 5
MaxSummaries == 2
MaxGenerated == 2
MaxDeleteIds == 4
MaxCardSets == 2
MaxCardIds == 5
MaxUploads == 1
MaxSubmissions == 2

(***************************************************************************)
(* Program constants.                                                      *)
(***************************************************************************)
DefaultMaxChars == 100000
UploadTextCap == 50000
DefaultNumQuestions == 10
DefaultNumCards == 20
ChatHistoryLimit == 20
PassThreshold == 60

Min(a, b) == IF a < b THEN a ELSE b
Max(a, b) == IF a > b THEN a ELSE b

(***************************************************************************)
(* Python string primitives on sequences of characters.                    *)
(***************************************************************************)
Whitespace == {" ", "\n", "\t"}

\* s[:n] for any integer n (a negative n drops the last -n characters)
SliceTo(s, n) ==
    IF n >= 0 THEN SubSeq(s, 1, Min(n, Len(s)))
    ELSE SubSeq(s, 1, Max(Len(s) + n, 0))

\* s[n:] for n >= 0
SliceFrom(s, n) == SubSeq(s, Min(n, Len(s)) + 1, Len(s))

StartsWith(s, p) == Len(s) >= Len(p) /\ SubSeq(s, 1, Len(p)) = p

EndsWith(s, p) ==
    Len(s) >= Len(p) /\ SubSeq(s, Len(s) - Len(p) + 1, Len(s)) = p

RECURSIVE LStrip(_)
LStrip(s) ==
    IF s # <<>> /\ Head(s) \in Whitespace THEN LStrip(Tail(s)) ELSE s

RECURSIVE RStrip(_)
RStrip(s) ==
    IF s # <<>> /\ s[Len(s)] \in Whitespace
    THEN RStrip(SubSeq(s, 1, Len(s) - 1))
    ELSE s

\* str.strip()
Strip(s) == RStrip(LStrip(s))

UpperCase == <<"A", "C", "D", "E", "F", "N", "O", "P", "T", "X">>
LowerCase == <<"a", "c", "d", "e", "f", "n", "o", "p", "t", "x">>

LowerChar(c) ==
    IF \E i \in 1..Len(UpperCase) : UpperCase[i] = c
    THEN LowerCase[CHOOSE i \in 1..Len(UpperCase) : UpperCase[i] = c]
    ELSE c

\* str.lower()
Lower(s) == [i \in 1..Len(s) |-> LowerChar(s[i])]

\* s.split('.')[-1]: what follows the last dot, the whole of s without a dot
LastSegment(s) ==
    LET dots == {i \in 1..Len(s) : s[i] = "."}
    IN  IF dots = {} THEN s
        ELSE SubSeq(s, (CHOOSE i \in dots : \A j \in dots : j <= i) + 1, Len(s))

\* sep.join(parts)
RECURSIVE Join(_, _)
Join(parts, sep) ==
    IF parts = <<>> THEN <<>>
    ELSE IF Len(parts) = 1 THEN parts[1]
    ELSE parts[1] \o sep \o Join(Tail(parts), sep)

(***************************************************************************)
(* Text extraction.  A byte blob is [format, parts]: format "pdf" with the *)
(* text of each page, "docx" with the text of each paragraph, "text" with  *)
(* the one text its bytes decode to as UTF-8, or "binary" (bytes that no   *)
(* parser accepts and that are not valid UTF-8).  Every function returns   *)
(* [raised, text].                                                         *)
(***************************************************************************)
Returned(t) == [raised |-> FALSE, text |-> t]
Raised == [raised |-> TRUE, text |-> <<>>]

RECURSIVE PdfPages(_, _, _, _)
PdfPages(pages, extracted, total_chars, max_chars) ==
    IF pages = <<>> THEN extracted
    ELSE LET text == Head(pages)
         IN  IF total_chars + Len(text) > max_chars
             THEN Append(extracted, SliceTo(text, max_chars - total_chars))
             ELSE PdfPages(Tail(pages), Append(extracted, text),
                           total_chars + Len(text), max_chars)

PdfJoin(parts) == Join(parts, <<"\n">>)

extract_text_from_pdf(pdf_content, max_chars) ==
    IF pdf_content.format # "pdf" THEN Returned(<<>>)
    ELSE Returned(PdfJoin(PdfPages(pdf_content.parts, <<>>, 0, max_chars)))

RECURSIVE NonBlank(_)
NonBlank(paras) ==
    IF paras = <<>> THEN <<>>
    ELSE IF Strip(Head(paras)) # <<>>
         THEN <<Head(paras)>> \o NonBlank(Tail(paras))
         ELSE NonBlank(Tail(paras))

Truncate(text, max_chars) ==
    IF Len(text) > max_chars THEN SliceTo(text, max_chars) ELSE text

extract_text_from_docx(file_content, max_chars) ==
    IF file_content.format # "docx" THEN Returned(<<>>)
    ELSE Returned(Truncate(Join(NonBlank(file_content.parts), <<"\n">>), max_chars))

Extension(file_name) == LastSegment(Lower(file_name))

\* takes bytes that do not decode for an empty text
extract_text_ignoring_errors(file_content, file_name, max_chars) ==
    IF file_content.format = "text" THEN Returned(Truncate(file_content.parts[1], max_chars))
    ELSE Returned(<<>>)

extract_text_from_file(file_content, file_name, max_chars) ==
    LET ext == Extension(file_name)
    IN  IF ext = <<"p", "d", "f">>
        THEN extract_text_from_pdf(file_content, max_chars)
        ELSE IF ext \in {<<"d", "o", "c", "x">>, <<"d", "o", "c">>}
        THEN extract_text_from_docx(file_content, max_chars)
        ELSE IF ext \in {<<"t", "x", "t">>, <<"t", "e", "x", "t">>}
        THEN IF file_content.format = "text"
             THEN Returned(Truncate(file_content.parts[1], max_chars))
             ELSE Raised
        ELSE Returned(<<>>)

(***************************************************************************)
(* call_gpt_json: fence removal and JSON decoding of the model's raw text. *)
(* The JSON decoder covers arrays of unsigned integers, which stand for    *)
(* the arrays the prompts ask for; it returns [ok, value].                 *)
(***************************************************************************)
Digits == <<"0", "1", "2", "3", "4", "5", "6", "7", "8", "9">>

IsDigit(c) == \E i \in 1..10 : Digits[i] = c

DigitValue(c) == (CHOOSE i \in 1..10 : Digits[i] = c) - 1

JsonError == [ok |-> FALSE, value |-> <<>>]

\* the items of "n , n , ... ]" after the opening bracket: [ok, value, rest]
RECURSIVE JsonItems(_, _, _, _)
JsonItems(s, acc, cur, state) ==
    \* state: "item" expects a number, "num" is inside one, "sep" follows one
    IF s = <<>> THEN [ok |-> FALSE, value |-> <<>>, rest |-> <<>>]
    ELSE LET c == Head(s)
         IN  CASE state = "item" /\ c \in Whitespace ->
                    JsonItems(Tail(s), acc, cur, "item")
               [] state = "item" /\ IsDigit(c) ->
                    JsonItems(Tail(s), acc, DigitValue(c), "num")
               [] state = "num" /\ IsDigit(c) /\ cur # 0 ->
                    JsonItems(Tail(s), acc, 10 * cur + DigitValue(c), "num")
               [] state = "num" /\ c \in Whitespace ->
                    JsonItems(Tail(s), Append(acc, cur), 0, "sep")
               [] state = "num" /\ c = "," ->
                    JsonItems(Tail(s), Append(acc, cur), 0, "item")
               [] state = "num" /\ c = "]" ->
                    [ok |-> TRUE, value |-> Append(acc, cur), rest |-> Tail(s)]
               [] state = "sep" /\ c \in Whitespace ->
                    JsonItems(Tail(s), acc, cur, "sep")
               [] state = "sep" /\ c = "," ->
                    JsonItems(Tail(s), acc, cur, "item")
               [] state = "sep" /\ c = "]" ->
                    [ok |-> TRUE, value |-> acc, rest |-> Tail(s)]
               [] OTHER -> [ok |-> FALSE, value |-> <<>>, rest |-> <<>>]

\* json.loads
JsonLoads(text) ==
    LET s == Strip(text)
    IN  IF s = <<>> \/ Head(s) # "[" THEN JsonError
        ELSE LET body == LStrip(Tail(s))
             IN  IF body # <<>> /\ Head(body) = "]"
                 THEN IF Tail(body) = <<>>
                      THEN [ok |-> TRUE, value |-> <<>>]
                      ELSE JsonError
                 ELSE LET r == JsonItems(body, <<>>, 0, "item")
                      IN  IF r.ok /\ r.rest = <<>>
                          THEN [ok |-> TRUE, value |-> r.value]
                          ELSE JsonError

\* the grave accent (U+0060), named because the lexer accepts none in a string
Backtick == "GRAVE"

Fence == <<Backtick, Backtick, Backtick>>
JsonFence == Fence \o <<"j", "s", "o", "n">>

StripOpeningFence(result) ==
    IF StartsWith(result, JsonFence) THEN SliceFrom(result, 7)
    ELSE IF StartsWith(result, Fence) THEN SliceFrom(result, 3)
    ELSE result

StripClosingFence(result) ==
    IF EndsWith(result, Fence) THEN SliceTo(result, Len(result) - 3) ELSE result

\* call_gpt_json on the raw text that call_gpt returned
call_gpt_json(raw) ==
    JsonLoads(Strip(StripClosingFence(StripOpeningFence(Strip(raw)))))

(***************************************************************************)
(* Optional values (a dict key that may be missing, a body field that may  *)
(* be absent) are sets with at most one element.                           *)
(***************************************************************************)
None == {}
Some(v) == {v}
The(opt) == CHOOSE v \in opt : TRUE

\* dict.get(key, default)
GetOr(opt, default) == IF opt = {} THEN default ELSE The(opt)

\* truthiness of an optional integer / an optional text (Python: x or y)
TruthyInt(opt) == opt # {} /\ The(opt) # 0
TruthyText(opt) == opt # {} /\ The(opt) # <<>>

(***************************************************************************)
(* Identity.  An event's authorizer claims hold an optional `sub` and an   *)
(* optional `cognito:username`.                                            *)
(***************************************************************************)
\* tells the senders of events without claims apart
get_user_id_per_client(claims) ==
    GetOr(claims.sub, GetOr(claims.username, claims.client))

get_user_id_from_event(claims) ==
    GetOr(claims.sub, GetOr(claims.username, "anonymous"))

create_response(op, status_code, body) ==
    [op |-> op, statusCode |-> status_code, body |-> body]

ErrorBody(msg) == [error |-> msg]

\* a table without the item of key k
Without(table, k) == [x \in DOMAIN table \ {k} |-> table[x]]

\* table.put_item of an item under key k
Put(table, k, item) == [x \in DOMAIN table \cup {k} |-> IF x = k THEN item ELSE table[x]]

(***************************************************************************)
(* Documents.  A request body is [malformed, ...fields]; a malformed body  *)
(* makes parse_body raise, which the handler's except turns into a 500.    *)
(* Free-text fields that are only passed through (language, title,         *)
(* difficulty, content type, message texts) are left out of the records.   *)
(***************************************************************************)
DefaultFileName ==
    <<"d", "o", "c", "u", "m", "e", "n", "t", ".", "t", "x", "t">>

\* len(file_content) of a blob: the characters of its parts
RECURSIVE BlobSize(_)
BlobSize(parts) ==
    IF parts = <<>> THEN 0 ELSE Len(Head(parts)) + BlobSize(Tail(parts))

\* the document projection that upload_document and get_document return
WithoutText(document) ==
    [documentId |-> document.documentId, userId |-> document.userId,
     fileName |-> document.fileName, s3Key |-> document.s3Key,
     fileSize |-> document.fileSize, fileType |-> document.fileType,
     createdAt |-> document.createdAt, status |-> document.status]

\* stores the record without the extracted text
save_document_without_text(doc_data, id, now) ==
    [documentId |-> id, userId |-> doc_data.userId,
     fileName |-> doc_data.fileName, s3Key |-> doc_data.s3Key,
     fileSize |-> doc_data.fileSize, fileType |-> doc_data.fileType,
     extractedText |-> <<>>,
     createdAt |-> now, status |-> "active"]

save_document(doc_data, id, now) ==
    [documentId |-> id, userId |-> doc_data.userId,
     fileName |-> doc_data.fileName, s3Key |-> doc_data.s3Key,
     fileSize |-> doc_data.fileSize, fileType |-> doc_data.fileType,
     extractedText |-> doc_data.extractedText,
     createdAt |-> now, status |-> "active"]

NoBody == [malformed |-> FALSE]

NoReply == [ok |-> FALSE, value |-> <<>>]

\* the event a handler is invoked with, and what the model answered during it
Receive(op, claims, id, body, reply) ==
    request' = [op |-> op, claims |-> claims, id |-> id, body |-> body,
                reply |-> reply]

NoEffects == [fetched |-> {}, asked |-> <<>>]

\* a handler returning after it fetched the blobs `fetched` (s3 get_object)
\* and issued the model calls `asked`
RespondAfter(op, status_code, body, fetched, asked) ==
    /\ response' = create_response(op, status_code, body)
    /\ effects' = [fetched |-> fetched, asked |-> asked]
    /\ UNCHANGED <<pureIn, pureOut, calls>>

Respond(op, status_code, body) ==
    RespondAfter(op, status_code, body, {}, <<>>)

\* a handler returning an error without touching a store
RefuseAfter(op, status_code, msg, fetched, asked) ==
    /\ RespondAfter(op, status_code, ErrorBody(msg), fetched, asked)
    /\ UNCHANGED <<tables, clock, nextId, observed>>

Refuse(op, status_code, msg) == RefuseAfter(op, status_code, msg, {}, <<>>)

\* one model call: prompt.format(.., count) handed to call_gpt or, through
\* call_gpt_json, to call_gpt; count is 0 for the prompts that take none
ModelCall(fn, count) == [fn |-> fn, count |-> count]

\* takes every reply for a success
NeverFailed(reply) == FALSE

\* call_gpt or call_gpt_json raised: no key, a non-200 answer, a timeout, or
\* text that does not decode
Failed(reply) == ~reply.ok

\* body.file, when present, is a blob of at least one byte (its base64 text is
\* not empty); `put_ok` says whether s3 put_object succeeded
upload_document(claims, body, put_ok, now) ==
    /\ Receive("upload_document", claims, 0, body, NoReply)
    /\ LET user_id == get_user_id_from_event(claims)
           file_name == GetOr(body.fileName, DefaultFileName)
           by_file == body.file # {}
           file_content == IF by_file THEN The(body.file)
                           ELSE [format |-> "text", parts |-> <<The(body.content)>>]
           extraction == IF by_file
                         THEN extract_text_from_file(file_content, file_name, DefaultMaxChars)
                         ELSE Returned(The(body.content))
           s3_key == [user |-> user_id, id |-> nextId, fileName |-> file_name]
           document == save_document(
               [userId |-> user_id, fileName |-> file_name, s3Key |-> s3_key,
                fileSize |-> BlobSize(file_content.parts),
                fileType |-> Lower(LastSegment(file_name)),
                extractedText |-> SliceTo(extraction.text, UploadTextCap)],
               nextId + 1, now)
       IN  IF body.malformed
           THEN Refuse("upload_document", 500, "invalid body")
           ELSE IF body.file = {} /\ ~TruthyText(body.content)
           THEN Refuse("upload_document", 400, "file or content is required")
           ELSE IF extraction.raised
           THEN Refuse("upload_document", 500, "decode failed")
           ELSE IF ~put_ok
           THEN Refuse("upload_document", 500, "put_object failed")
           ELSE /\ blobs' = Put(blobs, s3_key, file_content)
                /\ documents' = Put(documents, document.documentId, document)
                /\ nextId' = nextId + 2
                /\ clock' = now
                /\ Respond("upload_document", 201,
                           [message |-> "Document uploaded successfully",
                            document |-> WithoutText(document)
                                         @@ [textExtracted |-> Len(extraction.text) > 0]])
                /\ UNCHANGED <<summaries, flashcards, quizzes, chats, observed>>

\* table.query on the documentId-index of a table: the items of one document
ByDocument(table, document_id) ==
    {k \in DOMAIN table : table[k].documentId = document_id}

\* table.query on the userId-index of a table: the items of one user
ByUser(table, user_id) ==
    {k \in DOMAIN table : table[k].userId = user_id}

GuardExistenceOnly(table, id, user_id) ==
    IF id \notin DOMAIN table THEN 404 ELSE 200

\* the ownership guard every document-scoped handler starts with
Guard(table, id, user_id) ==
    IF id \notin DOMAIN table THEN 404
    ELSE IF table[id].userId # user_id THEN 403
    ELSE 200

GuardMessage(status_code, what) ==
    IF status_code = 404 THEN what ELSE "Access denied"

\* `first` is the summary the documentId-index lists first for the document
get_document(claims, document_id, first) ==
    /\ Receive("get_document", claims, document_id, NoBody, NoReply)
    /\ LET user_id == get_user_id_from_event(claims)
           guard == Guard(documents, document_id, user_id)
           document == documents[document_id]
           found == ByDocument(summaries, document_id)
       IN  IF guard # 200
           THEN Refuse("get_document", guard, GuardMessage(guard, "Document not found"))
           ELSE /\ first \in (IF found = {} THEN {0} ELSE found)
                /\ Respond("get_document", 200,
                           [document |-> WithoutText(document)
                                         @@ [hasText |-> document.extractedText # <<>>],
                            summary |-> IF found = {} THEN {} ELSE {summaries[first]},
                            flashcardSets |-> {flashcards[k] :
                                                 k \in ByDocument(flashcards, document_id)}])
                /\ UNCHANGED <<tables, clock, nextId, observed>>

\* gives up when the blob cannot be deleted
delete_document_by_id_strict(document_id, delete_ok) ==
    /\ blobs' = IF delete_ok /\ documents[document_id].s3Key \in DOMAIN blobs
                THEN Without(blobs, documents[document_id].s3Key)
                ELSE blobs
    /\ documents' = IF delete_ok THEN Without(documents, document_id) ELSE documents

delete_document_by_id(document_id, delete_ok) ==
    /\ blobs' = IF delete_ok /\ documents[document_id].s3Key \in DOMAIN blobs
                THEN Without(blobs, documents[document_id].s3Key)
                ELSE blobs
    /\ documents' = Without(documents, document_id)

delete_document(claims, document_id, delete_ok) ==
    /\ Receive("delete_document", claims, document_id, NoBody, NoReply)
    /\ LET user_id == get_user_id_from_event(claims)
           guard == Guard(documents, document_id, user_id)
       IN  IF guard # 200
           THEN Refuse("delete_document", guard, GuardMessage(guard, "Document not found"))
           ELSE /\ delete_document_by_id(document_id, delete_ok)
                /\ Respond("delete_document", 200,
                           [message |-> "Document deleted successfully",
                            documentId |-> document_id])
                /\ UNCHANGED <<summaries, flashcards, quizzes, chats, clock, nextId, observed>>

(***************************************************************************)
(* Quizzes.  A question is the object the model returned, kept as it came: *)
(* each of its keys is optional.  QUIZ_PROMPT asks for the keys question,  *)
(* options, correctAnswer and explanation.                                 *)
(***************************************************************************)
Question(question, options, correctAnswer, correct_answer, explanation) ==
    [question |-> question, options |-> options, correctAnswer |-> correctAnswer,
     correct_answer |-> correct_answer, explanation |-> explanation]

\* body.get('questionCount') or body.get('numQuestions') or 10
NumQuestions(body) ==
    IF TruthyInt(body.questionCount) THEN The(body.questionCount)
    ELSE IF TruthyInt(body.numQuestions) THEN The(body.numQuestions)
    ELSE DefaultNumQuestions

\* if len(questions) > num_questions: questions = questions[:num_questions]
Trim(questions, num_questions) ==
    IF Len(questions) > num_questions
    THEN SliceTo(questions, num_questions)
    ELSE questions

save_quiz(data, id, now) ==
    [quizId |-> id, documentId |-> data.documentId, userId |-> data.userId,
     questions |-> data.questions, questionCount |-> Len(data.questions),
     attempts |-> <<>>, createdAt |-> now]

\* `reply` is what call_gpt_json gives: [ok, value]; not ok when the call or
\* the decoding raised
create_quiz(claims, document_id, body, reply, now) ==
    /\ Receive("create_quiz", claims, document_id, body, reply)
    /\ LET user_id == get_user_id_from_event(claims)
           guard == Guard(documents, document_id, user_id)
           num_questions == NumQuestions(body)
           asked == <<ModelCall("call_gpt_json", num_questions)>>
           quiz == save_quiz([documentId |-> document_id, userId |-> user_id,
                              questions |-> Trim(reply.value, num_questions)],
                             nextId, now)
       IN  IF body.malformed
           THEN Refuse("create_quiz", 500, "invalid body")
           ELSE IF guard # 200
           THEN Refuse("create_quiz", guard, GuardMessage(guard, "Document not found"))
           ELSE IF documents[document_id].extractedText = <<>>
           THEN Refuse("create_quiz", 400, "No text content available")
           ELSE IF Failed(reply)
           THEN RefuseAfter("create_quiz", 500, "model call failed", {}, asked)
           ELSE /\ quizzes' = Put(quizzes, quiz.quizId, quiz)
                /\ nextId' = nextId + 1
                /\ clock' = now
                /\ RespondAfter("create_quiz", 201,
                                [message |-> "Quiz created successfully", quiz |-> quiz],
                                {}, asked)
                /\ UNCHANGED <<documents, blobs, summaries, flashcards, chats, observed>>

ForUserUnredacted(questions) ==
    [i \in 1..Len(questions) |->
        [question |-> The(questions[i].question),
         options |-> The(questions[i].options),
         correct_answer |-> questions[i].correct_answer,
         explanation |-> questions[i].explanation]]

\* the loop of get_quiz: q['question'] and q['options'] of every question
ForUser(questions) ==
    [i \in 1..Len(questions) |->
        [question |-> The(questions[i].question),
         options |-> The(questions[i].options)]]

get_quiz(claims, quiz_id) ==
    /\ Receive("get_quiz", claims, quiz_id, NoBody, NoReply)
    /\ LET user_id == get_user_id_from_event(claims)
           guard == Guard(quizzes, quiz_id, user_id)
           quiz == quizzes[quiz_id]
       IN  IF guard # 200
           THEN Refuse("get_quiz", guard, GuardMessage(guard, "Quiz not found"))
           ELSE IF \E i \in 1..Len(quiz.questions) :
                       quiz.questions[i].question = {} \/ quiz.questions[i].options = {}
           THEN Refuse("get_quiz", 500, "KeyError")
           ELSE /\ Respond("get_quiz", 200,
                           [quiz |-> [quizId |-> quiz.quizId,
                                      questions |-> ForUser(quiz.questions),
                                      questionCount |-> Len(quiz.questions)]])
                /\ UNCHANGED <<tables, clock, nextId, observed>>

list_quizzes(claims) ==
    /\ Receive("list_quizzes", claims, 0, NoBody, NoReply)
    /\ LET user_id == get_user_id_from_event(claims)
       IN  /\ Respond("list_quizzes", 200,
                      [quizzes |-> {[quizId |-> quizzes[k].quizId,
                                     documentId |-> quizzes[k].documentId,
                                     questionCount |-> quizzes[k].questionCount,
                                     attempts |-> Len(quizzes[k].attempts),
                                     createdAt |-> quizzes[k].createdAt] :
                                       k \in ByUser(quizzes, user_id)},
                       count |-> Cardinality(ByUser(quizzes, user_id))])
           /\ UNCHANGED <<tables, clock, nextId, observed>>

(***************************************************************************)
(* Grading.  Percentages are held in tenths of a percent (333 is 33.3).    *)
(***************************************************************************)
\* str(idx) for idx >= 0
RECURSIVE Str(_)
Str(n) == IF n < 10 THEN Digits[n + 1] ELSE Str(n \div 10) \o Digits[(n % 10) + 1]

\* answers.get(key): the optional submitted answer
Answer(answers, key) ==
    IF key \in DOMAIN answers THEN Some(answers[key]) ELSE None

\* user_answer == correct_answer, where user_answer may be None
IsCorrect(user_answer, correct_answer) == user_answer = {correct_answer}

\* the per-question results of submit_quiz, for questions that have the key
\* correct_answer
Results(questions, answers) ==
    [i \in 1..Len(questions) |->
        LET user_answer == Answer(answers, Str(i - 1))
            correct_answer == The(questions[i].correct_answer)
        IN  [question_index |-> i - 1,
             user_answer |-> user_answer,
             correct_answer |-> correct_answer,
             is_correct |-> IsCorrect(user_answer, correct_answer),
             explanation |-> GetOr(questions[i].explanation, <<>>)]]

Score(results) == Cardinality({i \in 1..Len(results) : results[i].is_correct})

PercentageFloor(correct, total) ==
    IF total > 0 THEN (correct * 1000) \div total ELSE 0

\* round((correct / total) * 100, 1) if total > 0 else 0, in tenths; round
\* takes the nearest tenth and, on a tie, the even one
Percentage(correct, total) ==
    IF total > 0
    THEN LET q == (correct * 1000) \div total
             r == (correct * 1000) % total
         IN  IF 2 * r > total \/ (2 * r = total /\ q % 2 = 1) THEN q + 1 ELSE q
    ELSE 0

PassedAbove(percentage) == percentage > PassThreshold * 10

\* percentage >= 60
Passed(percentage) == percentage >= PassThreshold * 10

save_quiz_attempt_replacing(quiz, attempt_data, id, now) ==
    [quiz EXCEPT !.questions = <<>>,
                 !.attempts =
        Append(@, [attemptId |-> id, answers |-> attempt_data.answers,
                   score |-> attempt_data.score,
                   totalQuestions |-> attempt_data.totalQuestions,
                   percentage |-> attempt_data.percentage,
                   completedAt |-> now])]

\* update_item: SET attempts = list_append(if_not_exists(attempts, []), [attempt])
save_quiz_attempt(quiz, attempt_data, id, now) ==
    [quiz EXCEPT !.attempts =
        Append(@, [attemptId |-> id, answers |-> attempt_data.answers,
                   score |-> attempt_data.score,
                   totalQuestions |-> attempt_data.totalQuestions,
                   percentage |-> attempt_data.percentage,
                   completedAt |-> now])]

\* what the caller of submit_quiz is told, kept with the request it answers
Observation(quiz_id, answers, resp) ==
    [quizId |-> quiz_id, answers |-> answers, statusCode |-> resp.statusCode,
     body |-> resp.body]

\* `keep` says whether this submission is the one remembered in `observed`
submit_quiz(claims, quiz_id, body, now, keep) ==
    /\ Receive("submit_quiz", claims, quiz_id, body, NoReply)
    /\ LET user_id == get_user_id_from_event(claims)
           guard == Guard(quizzes, quiz_id, user_id)
           quiz == quizzes[quiz_id]
           questions == quiz.questions
           total == Len(questions)
           results == Results(questions, body.answers)
           correct == Score(results)
           percentage == Percentage(correct, total)
           ok == create_response("submit_quiz", 200,
                     [message |-> "Quiz submitted",
                      result |-> [score |-> correct, totalQuestions |-> total,
                                  percentage |-> percentage, results |-> results,
                                  passed |-> Passed(percentage)]])
           failed == create_response("submit_quiz", 500, ErrorBody("KeyError"))
       IN  IF body.malformed
           THEN Refuse("submit_quiz", 500, "invalid body")
           ELSE IF guard # 200
           THEN Refuse("submit_quiz", guard, GuardMessage(guard, "Quiz not found"))
           ELSE IF \E i \in 1..total : questions[i].correct_answer = {}
           THEN /\ response' = failed
                /\ observed' = IF keep /\ observed = <<>>
                               THEN <<Observation(quiz_id, body.answers, failed)>>
                               ELSE observed
                /\ effects' = NoEffects
                /\ UNCHANGED <<tables, clock, nextId, pureIn, pureOut, calls>>
           ELSE /\ quizzes' = [quizzes EXCEPT ![quiz_id] =
                       save_quiz_attempt(quiz, [answers |-> body.answers, score |-> correct,
                                                totalQuestions |-> total,
                                                percentage |-> percentage], nextId, now)]
                /\ nextId' = nextId + 1
                /\ clock' = now
                /\ response' = ok
                /\ observed' = IF keep /\ observed = <<>>
                               THEN <<Observation(quiz_id, body.answers, ok)>>
                               ELSE observed
                /\ effects' = NoEffects
                /\ UNCHANGED <<documents, blobs, summaries, flashcards, chats, pureIn, pureOut,
                               calls>>

(***************************************************************************)
(* Summaries.  `reply` is what call_gpt gives: [ok, value]; not ok when    *)
(* the call raised.                                                        *)
(***************************************************************************)
\* one summary per document: the item's key is the document's id
save_summary_per_document(data, id, now) ==
    [summaryId |-> data.documentId, documentId |-> data.documentId,
     userId |-> data.userId, content |-> data.content, createdAt |-> now]

save_summary(data, id, now) ==
    [summaryId |-> id, documentId |-> data.documentId, userId |-> data.userId,
     content |-> data.content, createdAt |-> now]

\* the text summarize_document works on: the cached text and, when that is
\* empty, the text extracted again from the blob; [raised, text]
SummaryText(document) ==
    IF document.extractedText # <<>> THEN Returned(document.extractedText)
    ELSE IF document.s3Key \notin DOMAIN blobs THEN Raised
    ELSE extract_text_from_file(blobs[document.s3Key], document.fileName,
                                DefaultMaxChars)

\* the blobs summarize_document fetches: the document's, when its cached text
\* is empty
BlobsFetched(document) ==
    IF document.extractedText # <<>> THEN {} ELSE {document.s3Key}

summarize_document(claims, document_id, body, reply, now) ==
    /\ Receive("summarize_document", claims, document_id, body, reply)
    /\ LET user_id == get_user_id_from_event(claims)
           guard == Guard(documents, document_id, user_id)
           extraction == SummaryText(documents[document_id])
           fetched == BlobsFetched(documents[document_id])
           asked == <<ModelCall("call_gpt", 0)>>
           summary == save_summary([documentId |-> document_id, userId |-> user_id,
                                    content |-> reply.value], nextId, now)
       IN  IF body.malformed
           THEN Refuse("summarize_document", 500, "invalid body")
           ELSE IF guard # 200
           THEN Refuse("summarize_document", guard,
                       GuardMessage(guard, "Document not found"))
           ELSE IF extraction.raised
           THEN RefuseAfter("summarize_document", 500, "extraction failed", fetched, <<>>)
           ELSE IF extraction.text = <<>>
           THEN RefuseAfter("summarize_document", 400, "No text content available",
                            fetched, <<>>)
           ELSE IF Failed(reply)
           THEN RefuseAfter("summarize_document", 500, "model call failed", fetched, asked)
           ELSE /\ summaries' = Put(summaries, summary.summaryId, summary)
                /\ nextId' = nextId + 1
                /\ clock' = now
                /\ RespondAfter("summarize_document", 200,
                                [message |-> "Summary generated successfully",
                                 summary |-> summary],
                                fetched, asked)
                /\ UNCHANGED <<documents, blobs, flashcards, quizzes, chats, observed>>

\* `first` is the summary the documentId-index lists first for the document
get_summary(claims, document_id, first) ==
    /\ Receive("get_summary", claims, document_id, NoBody, NoReply)
    /\ LET user_id == get_user_id_from_event(claims)
           guard == Guard(documents, document_id, user_id)
           found == ByDocument(summaries, document_id)
       IN  IF guard # 200
           THEN Refuse("get_summary", guard, GuardMessage(guard, "Document not found"))
           ELSE IF found = {}
           THEN Refuse("get_summary", 404, "Summary not found")
           ELSE /\ first \in found
                /\ Respond("get_summary", 200, [summary |-> summaries[first]])
                /\ UNCHANGED <<tables, clock, nextId, observed>>

(***************************************************************************)
(* Flashcards.                                                             *)
(***************************************************************************)
\* never fewer than the default
NumCardsAtLeastDefault(body) ==
    IF TruthyInt(body.count) THEN Max(The(body.count), DefaultNumCards)
    ELSE IF TruthyInt(body.numCards) THEN Max(The(body.numCards), DefaultNumCards)
    ELSE DefaultNumCards

\* body.get('count') or body.get('numCards') or 20
NumCards(body) ==
    IF TruthyInt(body.count) THEN The(body.count)
    ELSE IF TruthyInt(body.numCards) THEN The(body.numCards)
    ELSE DefaultNumCards

save_flashcard_set(data, id, now) ==
    [flashcardSetId |-> id, documentId |-> data.documentId, userId |-> data.userId,
     cards |-> data.cards, cardCount |-> Len(data.cards), createdAt |-> now]

create_flashcards(claims, document_id, body, reply, now) ==
    /\ Receive("create_flashcards", claims, document_id, body, reply)
    /\ LET user_id == get_user_id_from_event(claims)
           guard == Guard(documents, document_id, user_id)
           asked == <<ModelCall("call_gpt_json", NumCards(body))>>
           flashcard_set == save_flashcard_set(
               [documentId |-> document_id, userId |-> user_id, cards |-> reply.value],
               nextId, now)
       IN  IF body.malformed
           THEN Refuse("create_flashcards", 500, "invalid body")
           ELSE IF guard # 200
           THEN Refuse("create_flashcards", guard,
                       GuardMessage(guard, "Document not found"))
           ELSE IF documents[document_id].extractedText = <<>>
           THEN Refuse("create_flashcards", 400, "No text content available")
           ELSE IF Failed(reply)
           THEN RefuseAfter("create_flashcards", 500, "model call failed", {}, asked)
           ELSE /\ flashcards' = Put(flashcards, flashcard_set.flashcardSetId,
                                     flashcard_set)
                /\ nextId' = nextId + 1
                /\ clock' = now
                /\ RespondAfter("create_flashcards", 201,
                                [message |-> "Flashcards created successfully",
                                 flashcardSet |-> flashcard_set,
                                 flashcards |-> reply.value],
                                {}, asked)
                /\ UNCHANGED <<documents, blobs, summaries, quizzes, chats, observed>>

get_flashcards(claims, document_id) ==
    /\ Receive("get_flashcards", claims, document_id, NoBody, NoReply)
    /\ LET user_id == get_user_id_from_event(claims)
           guard == Guard(documents, document_id, user_id)
       IN  IF guard # 200
           THEN Refuse("get_flashcards", guard,
                       GuardMessage(guard, "Document not found"))
           ELSE /\ Respond("get_flashcards", 200,
                           [flashcardSets |-> {flashcards[k] :
                                                 k \in ByDocument(flashcards, document_id)}])
                /\ UNCHANGED <<tables, clock, nextId, observed>>

(***************************************************************************)
(* Chat.                                                                   *)
(***************************************************************************)
save_chat_message(data, id, now) ==
    [chatId |-> id, documentId |-> data.documentId, userId |-> data.userId,
     userMessage |-> data.userMessage,
     assistantResponse |-> data.assistantResponse, createdAt |-> now]

\* body.get('question') or body.get('message', '')
ChatQuestion(body) ==
    IF TruthyText(body.question) THEN The(body.question)
    ELSE GetOr(body.message, <<>>)

chat_with_document(claims, document_id, body, reply, now) ==
    /\ Receive("chat_with_document", claims, document_id, body, reply)
    /\ LET user_id == get_user_id_from_event(claims)
           guard == Guard(documents, document_id, user_id)
           question == ChatQuestion(body)
           asked == <<ModelCall("call_gpt", 0)>>
           chat == save_chat_message(
               [documentId |-> document_id, userId |-> user_id,
                userMessage |-> question, assistantResponse |-> reply.value],
               nextId, now)
       IN  IF body.malformed
           THEN Refuse("chat_with_document", 500, "invalid body")
           ELSE IF question = <<>>
           THEN Refuse("chat_with_document", 400, "Question/message is required")
           ELSE IF guard # 200
           THEN Refuse("chat_with_document", guard,
                       GuardMessage(guard, "Document not found"))
           ELSE IF documents[document_id].extractedText = <<>>
           THEN Refuse("chat_with_document", 400, "No text content available")
           ELSE IF Failed(reply)
           THEN RefuseAfter("chat_with_document", 500, "model call failed", {}, asked)
           ELSE /\ chats' = Put(chats, chat.chatId, chat)
                /\ nextId' = nextId + 1
                /\ clock' = now
                /\ RespondAfter("chat_with_document", 200,
                                [question |-> question, answer |-> reply.value,
                                 chatId |-> chat.chatId],
                                {}, asked)
                /\ UNCHANGED <<documents, blobs, summaries, flashcards, quizzes, observed>>

\* The documentId-index of the chat table read with ScanIndexForward=False:
\* the document's turns by descending createdAt; turns of equal createdAt
\* come by descending id when `flip`, by ascending id otherwise.
Before(a, b, flip) ==
    \/ chats[a].createdAt > chats[b].createdAt
    \/ /\ chats[a].createdAt = chats[b].createdAt
       /\ IF flip THEN a > b ELSE a < b

RECURSIVE Descending(_, _)
Descending(ids, flip) ==
    IF ids = {} THEN <<>>
    ELSE LET top == CHOOSE a \in ids : \A b \in ids \ {a} : Before(a, b, flip)
         IN  <<chats[top]>> \o Descending(ids \ {top}, flip)

\* the position sorted() gives an item: after the items of a smaller key and
\* after the earlier items of an equal key
RECURSIVE SortedByCreatedAt(_)
SortedByCreatedAt(items) ==
    IF items = <<>> THEN <<>>
    ELSE LET n == Len(items)
             least == CHOOSE i \in 1..n :
                         /\ \A j \in 1..n : items[i].createdAt <= items[j].createdAt
                         /\ \A j \in 1..(i - 1) : items[j].createdAt # items[i].createdAt
             rest == [j \in 1..(n - 1) |-> IF j < least THEN items[j] ELSE items[j + 1]]
         IN  <<items[least]>> \o SortedByCreatedAt(rest)

RECURSIVE OfUser(_, _)
OfUser(items, user_id) ==
    IF items = <<>> THEN <<>>
    ELSE IF Head(items).userId = user_id
         THEN <<Head(items)>> \o OfUser(Tail(items), user_id)
         ELSE OfUser(Tail(items), user_id)

Unsorted(items) == items

\* sorted(items, key=lambda x: x.get('createdAt', ''))
Sorted(items) == SortedByCreatedAt(items)

get_chat_history_by_document(document_id, user_id, limit, flip) ==
    Sorted(OfUser(SliceTo(Descending(ByDocument(chats, document_id), flip), limit),
                  user_id))

get_chat_history(claims, document_id, flip) ==
    /\ Receive("get_chat_history", claims, document_id, NoBody, NoReply)
    /\ LET user_id == get_user_id_from_event(claims)
           guard == Guard(documents, document_id, user_id)
           history == get_chat_history_by_document(document_id, user_id,
                                                   ChatHistoryLimit, flip)
       IN  IF guard # 200
           THEN Refuse("get_chat_history", guard,
                       GuardMessage(guard, "Document not found"))
           ELSE /\ Respond("get_chat_history", 200,
                           [chatHistory |-> history, count |-> Len(history)])
                /\ UNCHANGED <<tables, clock, nextId, observed>>

(***************************************************************************)
(* Initial state: empty tables, empty bucket, no handler has run.          *)
(***************************************************************************)
NoResponse == [op |-> "none", statusCode |-> 0, body |-> ErrorBody("")]

NoRequest == [op |-> "none"]

NoCall == [fn |-> "none"]

InitStores ==
    /\ documents = <<>>
    /\ blobs = <<>>
    /\ summaries = <<>>
    /\ flashcards = <<>>
    /\ quizzes = <<>>
    /\ chats = <<>>
    /\ clock = 0
    /\ nextId = 1
    /\ request = NoRequest
    /\ response = NoResponse
    /\ observed = <<>>
    /\ effects = NoEffects
    /\ calls = <<>>

Init ==
    /\ InitStores
    /\ pureIn = NoCall
    /\ pureOut = NoCall

(***************************************************************************)
(* The inputs the environment may send.                                    *)
(***************************************************************************)
Authenticated(sub) == [sub |-> {sub}, username |-> {}]
Unauthenticated == [sub |-> {}, username |-> {}]

Callers == {Authenticated("u1"), Unauthenticated}

Malformed == [malformed |-> TRUE]

UploadBody(file, content, fileName) ==
    [malformed |-> FALSE, file |-> file, content |-> content, fileName |-> fileName]

UploadBodies ==
    { UploadBody({}, {<<"a", "b">>}, {}),
      UploadBody({}, {<<>>}, {}),
      UploadBody({[format |-> "pdf", parts |-> <<<<"a">>, <<"b">>>>]},
                 {}, {<<"n", ".", "P", "D", "F">>}),
      UploadBody({[format |-> "pdf", parts |-> <<<<"a">>>>]},
                 {}, {<<"n", ".", "p", "n", "g">>}),
      UploadBody({[format |-> "binary", parts |-> <<>>]},
                 {}, {<<"n", ".", "t", "x", "t">>}),
      [malformed |-> TRUE, file |-> {}, content |-> {}, fileName |-> {}] }

QuizBody(questionCount, numQuestions) ==
    [malformed |-> FALSE, questionCount |-> questionCount,
     numQuestions |-> numQuestions]

QuizBodies ==
    { QuizBody({}, {}), QuizBody({1}, {}), QuizBody({2}, {3}), QuizBody({0}, {2}),
      QuizBody({}, {3}), QuizBody({0}, {}), QuizBody({-1}, {}),
      [malformed |-> TRUE, questionCount |-> {}, numQuestions |-> {}] }

FourOptions == <<<<"a">>, <<"b">>, <<"c">>, <<"d">>>>

\* a question in the shape QUIZ_PROMPT asks for
Prompted(correct) ==
    Question({<<"q">>}, {FourOptions}, {correct}, {}, {<<"e">>})

\* a question whose correct index came under the key correct_answer
Snake(correct, explanation) ==
    Question({<<"q">>}, {FourOptions}, {}, {correct}, explanation)

QuizReplies ==
    { [ok |-> FALSE, value |-> <<>>],
      [ok |-> TRUE, value |-> <<>>],
      [ok |-> TRUE, value |-> <<Prompted(0)>>],
      [ok |-> TRUE, value |-> <<Snake(0, {<<"e">>}), Snake(1, {<<"f">>})>>],
      [ok |-> TRUE, value |-> <<Snake(1, {<<"e">>}), Snake(1, {}), Snake(2, {<<"e">>})>>],
      [ok |-> TRUE, value |-> <<Snake(3, {<<"e">>}),
                                Question({}, {FourOptions}, {}, {0}, {<<"e">>})>>],
      [ok |-> TRUE, value |-> [i \in 1..5 |-> Snake(0, {<<"e">>})]],
      [ok |-> TRUE, value |-> [i \in 1..(DefaultNumQuestions + 1) |-> Prompted(i % 4)]] }

SubmitBody(answers) == [malformed |-> FALSE, answers |-> answers]

NoAnswers == [k \in {} |-> 0]

SubmitBodies ==
    { SubmitBody(NoAnswers),
      SubmitBody([k \in {"0", "1"} |-> IF k = "0" THEN 0 ELSE 1]),
      SubmitBody([k \in {"0", "1"} |-> 1]),
      SubmitBody([k \in {"0", "1", "2"} |-> 0]),
      [malformed |-> TRUE, answers |-> NoAnswers] }

\* the ids a path parameter may name: the keys of the table and a missing one
PathIds(table) == DOMAIN table \cup {0}

Count(table) == Cardinality(DOMAIN table)

TextUploads ==
    { UploadBody({}, {<<"a", "b">>}, {}),
      UploadBody({[format |-> "pdf", parts |-> <<<<"a">>>>]},
                 {}, {<<"n", ".", "p", "n", "g">>}) }

(***************************************************************************)
(* Specification of quiz creation: upload, create a quiz with every body   *)
(* and every model reply, read it back, delete the document.  The wall     *)
(* clock advances with every write.                                        *)
(***************************************************************************)
NextCreate ==
    \/ \E c \in Callers, b \in TextUploads :
          Count(documents) < MaxDocs /\ nextId <= MaxCreateIds
          /\ upload_document(c, b, TRUE, clock + 1)
    \/ \E c \in Callers, d \in PathIds(documents), b \in QuizBodies, r \in QuizReplies :
          Count(quizzes) < MaxQuizzes /\ nextId <= MaxCreateIds
          /\ create_quiz(c, d, b, r, clock + 1)
    \/ \E c \in Callers, q \in PathIds(quizzes) : get_quiz(c, q)
    \/ \E c \in Callers : list_quizzes(c)
    \/ \E c \in Callers, d \in PathIds(documents) : delete_document(c, d, TRUE)

SpecCreate == Init /\ [][NextCreate]_vars

(***************************************************************************)
(* Specification of quiz grading: upload, create a quiz of the default     *)
(* size, take it, submit answers, list, delete the document.               *)
(***************************************************************************)
GradedReplies == {r \in QuizReplies : Len(r.value) <= MaxGraded}

NextQuiz ==
    \/ \E c \in Callers :
          Count(documents) < MaxDocs /\ nextId <= MaxIds
          /\ upload_document(c, UploadBody({}, {<<"a", "b">>}, {}), TRUE, clock + 1)
    \/ \E c \in Callers, d \in PathIds(documents), r \in GradedReplies :
          Count(quizzes) < MaxQuizzes /\ nextId <= MaxIds
          /\ create_quiz(c, d, QuizBody({}, {}), r, clock + 1)
    \/ \E c \in Callers, q \in PathIds(quizzes) : get_quiz(c, q)
    \/ \E c \in Callers, q \in PathIds(quizzes), b \in SubmitBodies :
          (q \in DOMAIN quizzes => Len(quizzes[q].attempts) < MaxAttempts)
          /\ nextId <= MaxIds
          /\ submit_quiz(c, q, b, clock + 1, FALSE)
    \/ \E c \in Callers : list_quizzes(c)
    \/ \E c \in Callers, d \in PathIds(documents) : delete_document(c, d, TRUE)

SpecQuiz == Init /\ [][NextQuiz]_vars

(***************************************************************************)
(* Specification of repeated grading: every operation that writes the quiz *)
(* table or removes a document, with one submission remembered in          *)
(* `observed` to compare later submissions with.                           *)
(***************************************************************************)
RegradedReplies == {r \in QuizReplies : Len(r.value) <= MaxRegraded}

NextRegrade ==
    \/ \E c \in Callers :
          Count(documents) < MaxDocs /\ nextId <= MaxRegradeIds
          /\ upload_document(c, UploadBody({}, {<<"a", "b">>}, {}), TRUE, clock + 1)
    \/ \E c \in Callers, d \in PathIds(documents), r \in RegradedReplies :
          Count(quizzes) < MaxQuizzes /\ nextId <= MaxRegradeIds
          /\ create_quiz(c, d, QuizBody({}, {}), r, clock + 1)
    \/ \E c \in Callers, q \in PathIds(quizzes), b \in SubmitBodies, keep \in BOOLEAN :
          (q \in DOMAIN quizzes => Len(quizzes[q].attempts) < MaxRegrades)
          /\ nextId <= MaxRegradeIds
          /\ submit_quiz(c, q, b, clock + 1, keep)
    \/ \E c \in Callers, d \in PathIds(documents) : delete_document(c, d, TRUE)

SpecRegrade == Init /\ [][NextRegrade]_vars

PlainBodies == {NoBody, Malformed}

TextReplies == {[ok |-> FALSE, value |-> <<>>], [ok |-> TRUE, value |-> <<"r">>]}

CardsBody(count, numCards) ==
    [malformed |-> FALSE, count |-> count, numCards |-> numCards]

CardsBodies == {CardsBody({}, {}), [malformed |-> TRUE, count |-> {}, numCards |-> {}]}

CardReplies ==
    { [ok |-> FALSE, value |-> <<>>],
      [ok |-> TRUE, value |-> <<[front |-> {<<"f">>}, back |-> {<<"b">>}]>>] }

ChatBody(question, message) ==
    [malformed |-> FALSE, question |-> question, message |-> message]

ChatBodies ==
    { ChatBody({<<"q">>}, {}), ChatBody({}, {<<"m">>}), ChatBody({<<>>}, {}),
      [malformed |-> TRUE, question |-> {}, message |-> {}] }

(***************************************************************************)
(* Specification of the service: every document-scoped and quiz-scoped     *)
(* handler, by every caller, on every id.  The wall clock advances with    *)
(* every write.                                                            *)
(***************************************************************************)
Next ==
    \/ \E c \in Callers, b \in UploadBodies, put_ok \in BOOLEAN :
          Count(documents) < MaxDocs /\ nextId <= MaxSpecIds
          /\ upload_document(c, b, put_ok, clock + 1)
    \/ \E c \in Callers, d \in PathIds(documents), b \in PlainBodies, r \in TextReplies :
          Count(summaries) < MaxArtifacts /\ nextId <= MaxSpecIds
          /\ summarize_document(c, d, b, r, clock + 1)
    \/ \E c \in Callers, d \in PathIds(documents), first \in PathIds(summaries) :
          get_summary(c, d, first)
    \/ \E c \in Callers, d \in PathIds(documents), b \in CardsBodies, r \in CardReplies :
          Count(flashcards) < MaxArtifacts /\ nextId <= MaxSpecIds
          /\ create_flashcards(c, d, b, r, clock + 1)
    \/ \E c \in Callers, d \in PathIds(documents) : get_flashcards(c, d)
    \/ \E c \in Callers, d \in PathIds(documents), r \in RegradedReplies,
          b \in {QuizBody({}, {}), [malformed |-> TRUE, questionCount |-> {},
                                    numQuestions |-> {}]} :
          Count(quizzes) < MaxQuizzes /\ nextId <= MaxSpecIds
          /\ create_quiz(c, d, b, r, clock + 1)
    \/ \E c \in Callers, q \in PathIds(quizzes) : get_quiz(c, q)
    \/ \E c \in Callers, q \in PathIds(quizzes), b \in SubmitBodies :
          (q \in DOMAIN quizzes => Len(quizzes[q].attempts) < MaxArtifacts)
          /\ nextId <= MaxSpecIds
          /\ submit_quiz(c, q, b, clock + 1, FALSE)
    \/ \E c \in Callers : list_quizzes(c)
    \/ \E c \in Callers, d \in PathIds(documents), b \in ChatBodies, r \in TextReplies :
          Count(chats) < MaxArtifacts /\ nextId <= MaxSpecIds
          /\ chat_with_document(c, d, b, r, clock + 1)
    \/ \E c \in Callers, d \in PathIds(documents), flip \in BOOLEAN :
          get_chat_history(c, d, flip)
    \/ \E c \in Callers, d \in PathIds(documents), first \in PathIds(summaries) :
          get_document(c, d, first)
    \/ \E c \in Callers, d \in PathIds(documents), delete_ok \in BOOLEAN :
          delete_document(c, d, delete_ok)

Spec == Init /\ [][Next]_vars

Card(front, back) == [front |-> front, back |-> back]

(***************************************************************************)
(* Specification of flashcard generation: upload, create flashcard sets    *)
(* with every way of asking for a number of cards and with model replies   *)
(* of fewer, as many and more cards than asked for, cards in and out of    *)
(* the shape FLASHCARDS_PROMPT asks for, read them back, create a quiz from *)
(* questions in and out of the shape QUIZ_PROMPT describes, delete.        *)
(***************************************************************************)
NextCards ==
    \/ \E c \in Callers, b \in TextUploads :
          Count(documents) < MaxDocs /\ nextId <= MaxCardIds
          /\ upload_document(c, b, TRUE, clock + 1)
    \/ \E c \in Callers, d \in PathIds(documents),
          b \in {CardsBody({}, {}), CardsBody({1}, {}), CardsBody({0}, {2}),
                 CardsBody({25}, {1}), CardsBody({}, {0}), CardsBody({-1}, {}),
                 [malformed |-> TRUE, count |-> {}, numCards |-> {}]},
          r \in {[ok |-> FALSE, value |-> <<>>],
                 [ok |-> TRUE, value |-> <<>>],
                 [ok |-> TRUE, value |-> <<Card({<<"f">>}, {<<"b">>})>>],
                 [ok |-> TRUE, value |-> <<Card({<<"f">>}, {<<"b">>}),
                                           Card({<<"g">>}, {})>>]} :
          Count(flashcards) < MaxCardSets /\ nextId <= MaxCardIds
          /\ create_flashcards(c, d, b, r, clock + 1)
    \/ \E c \in Callers, d \in PathIds(documents) : get_flashcards(c, d)
    \/ \E c \in Callers, d \in PathIds(documents),
          r \in {[ok |-> FALSE, value |-> <<>>],
                 [ok |-> TRUE, value |-> <<Snake(0, {<<"e">>})>>],
                 [ok |-> TRUE, value |->
                     <<Question({<<"q">>}, {<<<<"a">>, <<"b">>>>}, {}, {7}, {})>>]} :
          Count(quizzes) < MaxQuizzes /\ nextId <= MaxCardIds
          /\ create_quiz(c, d, QuizBody({}, {}), r, clock + 1)
    \/ \E c \in Callers, d \in PathIds(documents) : delete_document(c, d, TRUE)

SpecCards == Init /\ [][NextCards]_vars

(***************************************************************************)
(* Specification of document deletion: upload, read and delete documents   *)
(* under every id issued so far, with the blob store accepting or failing  *)
(* the deletion of the blob.                                               *)
(***************************************************************************)
NextDelete ==
    \/ \E c \in Callers, b \in TextUploads :
          Count(documents) < MaxDocs /\ nextId <= MaxDeleteIds
          /\ upload_document(c, b, TRUE, clock + 1)
    \/ \E c \in Callers, d \in 0..MaxDeleteIds : get_document(c, d, 0)
    \/ \E c \in Callers, d \in 0..MaxDeleteIds, delete_ok \in BOOLEAN :
          delete_document(c, d, delete_ok)

SpecDelete == Init /\ [][NextDelete]_vars

(***************************************************************************)
(* Specification of a document's summaries: upload, summarize the document *)
(* repeatedly, read the summary back, delete the document.                 *)
(***************************************************************************)
NextSummaries ==
    \/ \E c \in Callers, b \in TextUploads :
          Count(documents) < MaxDocs /\ nextId <= MaxUploads
          /\ upload_document(c, b, TRUE, clock + 1)
    \/ \E c \in Callers, d \in PathIds(documents), b \in PlainBodies, r \in TextReplies :
          Count(summaries) < MaxSummaries
          /\ summarize_document(c, d, b, r, clock + 1)
    \/ \E c \in Callers, d \in PathIds(documents), first \in PathIds(summaries) :
          get_summary(c, d, first)
    \/ \E c \in Callers, d \in PathIds(documents) : delete_document(c, d, TRUE)

SpecSummaries == Init /\ [][NextSummaries]_vars

(***************************************************************************)
(* Specification of unauthenticated access: four clients send events, two  *)
(* without claims, one with a sub, one with a cognito:username only.  The  *)
(* field `client` says who sent the event; no handler reads it.  Documents *)
(* are uploaded by the first client of each kind; every client reads,      *)
(* generates, submits and deletes.                                         *)
(***************************************************************************)
Client(name, claims) == claims @@ [client |-> name]

Clients ==
    { Client("a", Unauthenticated), Client("b", Unauthenticated),
      Client("c", Authenticated("u1")), Client("d", [sub |-> {}, username |-> {"u2"}]) }

NextAnonymous ==
    \/ \E c \in {x \in Clients : x.client \in {"a", "c"}} :
          Count(documents) < MaxDocs /\ nextId <= MaxAnonymousIds
          /\ upload_document(c, UploadBody({}, {<<"a", "b">>}, {}), TRUE, clock + 1)
    \/ \E c \in Clients, d \in PathIds(documents) : get_document(c, d, 0)
    \/ \E c \in Clients, d \in PathIds(documents), b \in PlainBodies :
          Count(summaries) < MaxArtifacts /\ nextId <= MaxAnonymousIds
          /\ summarize_document(c, d, b, [ok |-> TRUE, value |-> <<"r">>], clock + 1)
    \/ \E c \in Clients, d \in PathIds(documents) :
          Count(quizzes) < MaxQuizzes /\ nextId <= MaxAnonymousIds
          /\ create_quiz(c, d, QuizBody({}, {}),
                         [ok |-> TRUE, value |-> <<Snake(0, {<<"e">>})>>], clock + 1)
    \/ \E c \in Clients, q \in PathIds(quizzes) : get_quiz(c, q)
    \/ \E c \in Clients, q \in PathIds(quizzes) :
          (q \in DOMAIN quizzes => Len(quizzes[q].attempts) < MaxArtifacts)
          /\ nextId <= MaxAnonymousIds
          /\ submit_quiz(c, q, SubmitBody(NoAnswers), clock + 1, FALSE)
    \/ \E c \in Clients, d \in PathIds(documents) : delete_document(c, d, TRUE)

SpecAnonymous == Init /\ [][NextAnonymous]_vars

(***************************************************************************)
(* Specification of one document's conversation: upload a document, chat   *)
(* with it, read the history.  Two turns may carry the same timestamp.     *)
(***************************************************************************)
Ties == Count(chats) - Cardinality({chats[k].createdAt : k \in DOMAIN chats})

\* what get_timestamp may return: a later instant, or the instant of the
\* last write again
Stamps == {clock + 1} \cup (IF Ties < MaxTies THEN {clock} ELSE {})

NextChat ==
    \/ \E c \in Callers :
          Count(documents) < MaxDocs
          /\ upload_document(c, UploadBody({}, {<<"a", "b">>}, {}), TRUE, clock + 1)
    \/ \E c \in Callers, d \in PathIds(documents), now \in Stamps :
          Count(chats) < MaxChats
          /\ chat_with_document(c, d, ChatBody({<<"q">>}, {}),
                                [ok |-> TRUE, value |-> <<"r">>], now)
    \/ \E c \in Callers, d \in PathIds(documents), flip \in BOOLEAN :
          get_chat_history(c, d, flip)

SpecChat == Init /\ [][NextChat]_vars

(***************************************************************************)
(* Concurrent invocations.  Every request runs in its own invocation; the  *)
(* invocations share the table store only.  A handler that reads and then  *)
(* writes is two steps: the first ends with its read of the store (get_item *)
(* of the quiz or of the document), the second is its write (update_item,  *)
(* put_item) and its response.  What the first step read travels in        *)
(* calls[p].  A request that is refused before its write is one step.      *)
(***************************************************************************)
Invocations == 1..MaxCalls

\* submit_quiz gets past its checks: the body parses, the quiz is the
\* caller's, and every question grades
SubmitReaches(claims, quiz_id, body) ==
    /\ ~body.malformed
    /\ Guard(quizzes, quiz_id, get_user_id_from_event(claims)) = 200
    /\ \A i \in 1..Len(quizzes[quiz_id].questions) :
          quizzes[quiz_id].questions[i].correct_answer # {}

\* submit_quiz up to and including the grading of the quiz it read
submit_quiz_read(p, claims, quiz_id, body) ==
    /\ p \notin DOMAIN calls
    /\ IF SubmitReaches(claims, quiz_id, body)
       THEN /\ calls' = Put(calls, p, [op |-> "submit_quiz", claims |-> claims,
                                       id |-> quiz_id, body |-> body,
                                       read |-> quizzes[quiz_id]])
            /\ UNCHANGED <<tables, clock, nextId, request, response, observed,
                           pureIn, pureOut, effects>>
       ELSE submit_quiz(claims, quiz_id, body, clock, FALSE)

\* a lost update: the write puts back the list the invocation read, plus
\* its own attempt
AppendAttemptToRead(stored, read, attempt_data, id, now) ==
    save_quiz_attempt(read, attempt_data, id, now)

\* update_item with list_append: the store appends to the list it holds
AppendAttempt(stored, read, attempt_data, id, now) ==
    save_quiz_attempt(stored, attempt_data, id, now)

\* the invocation's write found the item changed since its read
Overtaken(p) ==
    IF calls[p].op = "submit_quiz"
    THEN quizzes[calls[p].id] # calls[p].read
    ELSE IF calls[p].op = "summarize_document"
    THEN ByDocument(summaries, calls[p].id) # calls[p].read
    ELSE ByDocument(quizzes, calls[p].id) # calls[p].read

\* remembers the first write that went over a read that was out of date
Overtaking(p) ==
    IF Overtaken(p) /\ observed = <<>>
    THEN <<[op |-> calls[p].op, id |-> calls[p].id]>>
    ELSE observed

\* submit_quiz from save_quiz_attempt to its response
submit_quiz_write(p, now) ==
    /\ p \in DOMAIN calls
    /\ calls[p].op = "submit_quiz"
    /\ LET c == calls[p]
           questions == c.read.questions
           total == Len(questions)
           results == Results(questions, c.body.answers)
           correct == Score(results)
           percentage == Percentage(correct, total)
       IN  /\ quizzes' = [quizzes EXCEPT ![c.id] =
                  AppendAttempt(quizzes[c.id], c.read,
                                [answers |-> c.body.answers, score |-> correct,
                                 totalQuestions |-> total, percentage |-> percentage],
                                nextId, now)]
           /\ request' = [op |-> c.op, claims |-> c.claims, id |-> c.id,
                          body |-> c.body, reply |-> NoReply]
           /\ response' = create_response("submit_quiz", 200,
                  [message |-> "Quiz submitted",
                   result |-> [score |-> correct, totalQuestions |-> total,
                               percentage |-> percentage, results |-> results,
                               passed |-> Passed(percentage)]])
    /\ observed' = Overtaking(p)
    /\ calls' = Without(calls, p)
    /\ nextId' = nextId + 1
    /\ clock' = now
    /\ effects' = NoEffects
    /\ UNCHANGED <<documents, blobs, summaries, flashcards, chats, pureIn, pureOut>>

\* summarize_document and create_quiz get past their checks: the body parses,
\* the document is the caller's and there is text to work on
GenerateReaches(op, claims, document_id, body) ==
    /\ ~body.malformed
    /\ Guard(documents, document_id, get_user_id_from_event(claims)) = 200
    /\ IF op = "summarize_document"
       THEN /\ ~SummaryText(documents[document_id]).raised
            /\ SummaryText(documents[document_id]).text # <<>>
       ELSE documents[document_id].extractedText # <<>>

\* summarize_document or create_quiz up to the model call
generate_read(p, op, claims, document_id, body) ==
    /\ p \notin DOMAIN calls
    /\ IF GenerateReaches(op, claims, document_id, body)
       THEN /\ calls' = Put(calls, p,
                  [op |-> op, claims |-> claims, id |-> document_id, body |-> body,
                   fetched |-> BlobsFetched(documents[document_id]),
                   read |-> IF op = "summarize_document"
                            THEN ByDocument(summaries, document_id)
                            ELSE ByDocument(quizzes, document_id)])
            /\ UNCHANGED <<tables, clock, nextId, request, response, observed,
                           pureIn, pureOut, effects>>
       ELSE IF op = "summarize_document"
       THEN summarize_document(claims, document_id, body, NoReply, clock)
       ELSE create_quiz(claims, document_id, body, NoReply, clock)

\* summarize_document or create_quiz from the model's reply to the response
generate_write(p, reply, now) ==
    /\ p \in DOMAIN calls
    /\ calls[p].op \in {"summarize_document", "create_quiz"}
    /\ LET c == calls[p]
           user_id == get_user_id_from_event(c.claims)
           summary == save_summary([documentId |-> c.id, userId |-> user_id,
                                    content |-> reply.value], nextId, now)
           quiz == save_quiz([documentId |-> c.id, userId |-> user_id,
                              questions |-> Trim(reply.value, NumQuestions(c.body))],
                             nextId, now)
           asked == IF c.op = "summarize_document"
                    THEN <<ModelCall("call_gpt", 0)>>
                    ELSE <<ModelCall("call_gpt_json", NumQuestions(c.body))>>
       IN  /\ request' = [op |-> c.op, claims |-> c.claims, id |-> c.id,
                          body |-> c.body, reply |-> reply]
           /\ effects' = [fetched |-> c.fetched, asked |-> asked]
           /\ IF Failed(reply)
              THEN /\ response' = create_response(c.op, 500, ErrorBody("model call failed"))
                   /\ UNCHANGED <<tables, clock, nextId, observed>>
              ELSE /\ IF c.op = "summarize_document"
                      THEN /\ summaries' = Put(summaries, summary.summaryId, summary)
                           /\ response' = create_response(c.op, 200,
                                  [message |-> "Summary generated successfully",
                                   summary |-> summary])
                           /\ UNCHANGED quizzes
                      ELSE /\ quizzes' = Put(quizzes, quiz.quizId, quiz)
                           /\ response' = create_response(c.op, 201,
                                  [message |-> "Quiz created successfully",
                                   quiz |-> quiz])
                           /\ UNCHANGED summaries
                   /\ observed' = Overtaking(p)
                   /\ nextId' = nextId + 1
                   /\ clock' = now
                   /\ UNCHANGED <<documents, blobs, flashcards, chats>>
    /\ calls' = Without(calls, p)
    /\ UNCHANGED <<pureIn, pureOut>>

\* upload_document up to and including put_object: the body is parsed, the
\* text extracted and the blob stored under a key with a fresh id
upload_store(p, claims, body, put_ok) ==
    /\ p \notin DOMAIN calls
    /\ LET file_name == GetOr(body.fileName, DefaultFileName)
           by_file == body.file # {}
           file_content == IF by_file THEN The(body.file)
                           ELSE [format |-> "text", parts |-> <<The(body.content)>>]
           extraction == IF by_file
                         THEN extract_text_from_file(file_content, file_name, DefaultMaxChars)
                         ELSE Returned(The(body.content))
           s3_key == [user |-> get_user_id_from_event(claims), id |-> nextId,
                      fileName |-> file_name]
       IN  IF /\ ~body.malformed
              /\ body.file # {} \/ TruthyText(body.content)
              /\ ~extraction.raised
              /\ put_ok
           THEN /\ blobs' = Put(blobs, s3_key, file_content)
                /\ nextId' = nextId + 1
                /\ calls' = Put(calls, p, [op |-> "upload_document", claims |-> claims,
                                           id |-> 0, body |-> body, s3Key |-> s3_key])
                /\ UNCHANGED <<documents, summaries, flashcards, quizzes, chats, clock,
                               request, response, observed, pureIn, pureOut, effects>>
           ELSE upload_document(claims, body, put_ok, clock)

\* upload_document from save_document to its response
upload_save(p, now) ==
    /\ p \in DOMAIN calls
    /\ calls[p].op = "upload_document"
    /\ LET c == calls[p]
           file_name == GetOr(c.body.fileName, DefaultFileName)
           by_file == c.body.file # {}
           file_content == IF by_file THEN The(c.body.file)
                           ELSE [format |-> "text", parts |-> <<The(c.body.content)>>]
           extraction == IF by_file
                         THEN extract_text_from_file(file_content, file_name, DefaultMaxChars)
                         ELSE Returned(The(c.body.content))
           document == save_document(
               [userId |-> get_user_id_from_event(c.claims), fileName |-> file_name,
                s3Key |-> c.s3Key, fileSize |-> BlobSize(file_content.parts),
                fileType |-> Lower(LastSegment(file_name)),
                extractedText |-> SliceTo(extraction.text, UploadTextCap)],
               nextId, now)
       IN  /\ documents' = Put(documents, document.documentId, document)
           /\ request' = [op |-> c.op, claims |-> c.claims, id |-> 0, body |-> c.body,
                          reply |-> NoReply]
           /\ response' = create_response("upload_document", 201,
                  [message |-> "Document uploaded successfully",
                   document |-> WithoutText(document)
                                @@ [textExtracted |-> Len(extraction.text) > 0]])
    /\ calls' = Without(calls, p)
    /\ nextId' = nextId + 1
    /\ clock' = now
    /\ effects' = NoEffects
    /\ UNCHANGED <<blobs, summaries, flashcards, quizzes, chats, observed, pureIn, pureOut>>

ConcurrentQuizReplies ==
    { [ok |-> FALSE, value |-> <<>>],
      [ok |-> TRUE, value |-> <<Snake(0, {<<"e">>}), Snake(1, {<<"f">>})>>] }

ConcurrentSubmitBodies ==
    { SubmitBody(NoAnswers),
      SubmitBody([k \in {"0", "1"} |-> IF k = "0" THEN 0 ELSE 1]) }

(***************************************************************************)
(* Specification of concurrent submissions: one document, its quizzes, and *)
(* submissions by up to MaxCalls invocations at a time, with quiz creation *)
(* and document deletion in between.                                       *)
(***************************************************************************)
NextSubmissions ==
    \/ \E c \in Callers :
          Count(documents) < MaxDocs /\ nextId <= MaxUploads
          /\ upload_document(c, UploadBody({}, {<<"a", "b">>}, {}), TRUE, clock + 1)
    \/ \E p \in Invocations, c \in Callers, d \in PathIds(documents) :
          Count(quizzes) + Cardinality(DOMAIN calls) < MaxQuizzes
          /\ generate_read(p, "create_quiz", c, d, QuizBody({}, {}))
    \/ \E p \in Invocations, r \in ConcurrentQuizReplies :
          generate_write(p, r, clock + 1)
    \/ \E p \in Invocations, c \in Callers, q \in PathIds(quizzes),
          b \in ConcurrentSubmitBodies :
          (q \in DOMAIN quizzes =>
              Len(quizzes[q].attempts) + Cardinality(DOMAIN calls) < MaxSubmissions)
          /\ submit_quiz_read(p, c, q, b)
    \/ \E p \in Invocations : submit_quiz_write(p, clock + 1)
    \/ \E c \in Callers, d \in PathIds(documents) : delete_document(c, d, TRUE)

SpecSubmissions == Init /\ [][NextSubmissions]_vars

(***************************************************************************)
(* Specification of concurrent generation: one document, and up to         *)
(* MaxCalls invocations of summarize_document and create_quiz on it at a   *)
(* time, with the document deleted at any moment.                          *)
(***************************************************************************)
NextGenerations ==
    \/ \E c \in Callers :
          Count(documents) < MaxDocs /\ nextId <= MaxUploads
          /\ upload_document(c, UploadBody({}, {<<"a", "b">>}, {}), TRUE, clock + 1)
    \/ \E p \in Invocations, c \in Callers, d \in PathIds(documents),
          op \in {"summarize_document", "create_quiz"} :
          Count(summaries) + Count(quizzes) + Cardinality(DOMAIN calls) < MaxGenerated
          /\ generate_read(p, op, c, d, IF op = "create_quiz" THEN QuizBody({}, {})
                                        ELSE NoBody)
    \/ \E p \in DOMAIN calls :
          \E r \in IF calls[p].op = "create_quiz" THEN ConcurrentQuizReplies
                   ELSE TextReplies :
              generate_write(p, r, clock + 1)
    \/ \E c \in Callers, d \in PathIds(documents) : delete_document(c, d, TRUE)

SpecGenerations == Init /\ [][NextGenerations]_vars

(***************************************************************************)
(* Specification of uploads: up to MaxCalls invocations of upload_document *)
(* at a time, with every body and with the blob store accepting or failing *)
(* the blob, and documents deleted in between.                             *)
(***************************************************************************)
NextUpload ==
    \/ \E p \in Invocations, c \in Callers, b \in UploadBodies, put_ok \in BOOLEAN :
          Count(documents) < MaxDocs /\ nextId <= MaxUploadIds
          /\ upload_store(p, c, b, put_ok)
    \/ \E p \in Invocations : upload_save(p, clock + 1)
    \/ \E c \in Callers, d \in PathIds(documents), delete_ok \in BOOLEAN :
          delete_document(c, d, delete_ok)

SpecUpload == Init /\ [][NextUpload]_vars

(***************************************************************************)
(* Specification of the text extractor as a pure function: the initial     *)
(* state draws a blob, a file name and max_chars; the one step applies     *)
(* extract_text_from_file.                                                 *)
(***************************************************************************)
MaxParts == 2

PartTexts == {<<>>, <<"a">>, <<"a", "b">>, <<" ">>}

PartSeqs == UNION {[1..n -> PartTexts] : n \in 0..MaxParts}

SampleBlobs ==
    [format : {"pdf", "docx"}, parts : PartSeqs]
    \cup [format : {"text"}, parts : {<<t>> : t \in PartTexts \cup {<<"a", "b", "a", "b", "a">>}}]
    \cup [format : {"binary"}, parts : {<<>>}]

SampleFileNames ==
    { <<"n", ".", "p", "d", "f">>, <<"N", ".", "P", "D", "F">>,
      <<"n", ".", "d", "o", "c", "x">>, <<"n", ".", "d", "o", "c">>,
      <<"n", ".", "t", "x", "t">>, <<"n", ".", "t", "e", "x", "t">>,
      <<"n", ".", "p", "d", "f", ".", "p", "n", "g">>, <<"t", "x", "t">>,
      <<"n">> }

InitExtract ==
    /\ InitStores
    /\ pureIn \in [fn : {"extract_text_from_file"}, file_content : SampleBlobs,
                   file_name : SampleFileNames, max_chars : 0..MaxChars]
    /\ pureOut = NoCall

ExtractStep ==
    /\ pureIn.fn = "extract_text_from_file"
    /\ pureOut = NoCall
    /\ pureOut' = [fn |-> pureIn.fn,
                   result |-> extract_text_from_file(pureIn.file_content,
                                                     pureIn.file_name,
                                                     pureIn.max_chars)]
    /\ UNCHANGED <<tables, clock, nextId, request, response, observed, pureIn,
                   effects, calls>>

SpecExtract == InitExtract /\ [][ExtractStep]_vars

(***************************************************************************)
(* Specification of call_gpt_json as a pure function of the model's raw    *)
(* text: the initial state draws a payload, the way it is wrapped and the  *)
(* whitespace around it; the one step decodes it.                          *)
(***************************************************************************)
Payloads ==
    { [text |-> <<"[", "]">>, value |-> <<>>],
      [text |-> <<"[", "7", "]">>, value |-> <<7>>],
      [text |-> <<"[", "1", ",", " ", "2", "0", "]">>, value |-> <<1, 20>>],
      [text |-> <<"[", "\n", "3", "\n", "]">>, value |-> <<3>>] }

Wrappings == {"none", "json", "bare", "tag"}

OtherTag == <<"j", "s">>

Gaps == {<<>>, <<"\n">>, <<" ", "\n">>}

Wrap(payload, wrapping, lead, inner, trail) ==
    CASE wrapping = "none" -> lead \o payload \o trail
      [] wrapping = "json" -> lead \o JsonFence \o inner \o payload \o inner \o Fence \o trail
      [] wrapping = "bare" -> lead \o Fence \o inner \o payload \o inner \o Fence \o trail
      [] wrapping = "tag" ->
            lead \o Fence \o OtherTag \o <<"\n">> \o payload \o inner \o Fence \o trail

InitJson ==
    /\ InitStores
    /\ \E p \in Payloads, w \in Wrappings, lead \in Gaps, inner \in Gaps, trail \in Gaps :
          pureIn = [fn |-> "call_gpt_json", payload |-> p, wrapping |-> w,
                    raw |-> Wrap(p.text, w, lead, inner, trail)]
    /\ pureOut = NoCall

DecodeStep ==
    /\ pureIn.fn = "call_gpt_json"
    /\ pureOut = NoCall
    /\ pureOut' = [fn |-> pureIn.fn, result |-> call_gpt_json(pureIn.raw)]
    /\ UNCHANGED <<tables, clock, nextId, request, response, observed, pureIn,
                   effects, calls>>

SpecJson == InitJson /\ [][DecodeStep]_vars

(***************************************************************************)
(* Properties of the quiz handlers.                                        *)
(***************************************************************************)
Caller == get_user_id_from_event(request.claims)

\* the last handler was `op`, answered with `status_code`
Answered(op, status_code) ==
    request.op = op /\ response.op = op /\ response.statusCode = status_code

SecretKeys == {"questions", "correctAnswer", "correct_answer", "explanation"}

\* C2: what get_quiz returns for a question is its prompt text and options
\* and nothing else, list_quizzes returns no question at all, and a
\* successful submit_quiz returns the stored correct index and explanation
\* of every question.
C2_AnswersOnlyAfterSubmission ==
    /\ Answered("get_quiz", 200) =>
          LET stored == quizzes[request.id].questions
              shown == response.body.quiz.questions
          IN  /\ DOMAIN response.body.quiz = {"quizId", "questions", "questionCount"}
              /\ Len(shown) = Len(stored)
              /\ \A i \in 1..Len(shown) :
                    /\ DOMAIN shown[i] = {"question", "options"}
                    /\ {shown[i].question} = stored[i].question
                    /\ {shown[i].options} = stored[i].options
    /\ (request.op = "get_quiz" /\ response.statusCode # 200) =>
          DOMAIN response.body = {"error"}
    /\ Answered("list_quizzes", 200) =>
          \A item \in response.body.quizzes : DOMAIN item \cap SecretKeys = {}
    /\ Answered("submit_quiz", 200) =>
          LET stored == quizzes[request.id].questions
              results == response.body.result.results
          IN  /\ Len(results) = Len(stored)
              /\ \A i \in 1..Len(results) :
                    /\ {results[i].correct_answer} = stored[i].correct_answer
                    /\ results[i].explanation = GetOr(stored[i].explanation, <<>>)

C2_Witness ==
    /\ Answered("get_quiz", 200)
    /\ Len(quizzes[request.id].questions) >= 2
    /\ Len(quizzes[request.id].attempts) >= 1
    /\ \A i \in 1..Len(quizzes[request.id].questions) :
          quizzes[request.id].questions[i].correct_answer # {}

\* a question exactly in the shape QUIZ_PROMPT asks for
IsPrompted(q) ==
    /\ q.question # {} /\ q.options # {} /\ q.explanation # {}
    /\ q.correctAnswer # {} /\ q.correct_answer = {}

\* C3: for a quiz whose questions have the shape the quiz prompt requests,
\* submit_quiz by the owner succeeds and its score is the number of questions
\* whose submitted answer is present and equals the stored correct index.
C3_OwnerSubmissionIsScored ==
    (/\ request.op = "submit_quiz"
     /\ ~request.body.malformed
     /\ request.id \in DOMAIN quizzes
     /\ quizzes[request.id].userId = Caller
     /\ \A i \in 1..Len(quizzes[request.id].questions) :
           IsPrompted(quizzes[request.id].questions[i]))
    => /\ response.statusCode = 200
       /\ response.body.result.score =
             Cardinality({i \in 1..Len(quizzes[request.id].questions) :
                 Answer(request.body.answers, Str(i - 1))
                    = quizzes[request.id].questions[i].correctAnswer})

\* C4 as stated: with N the requested count and M the length of the decoded
\* list, the stored quiz holds the first N questions when M > N and all M
\* questions otherwise, and questionCount is the length of what is stored.
C4_StoredQuizHoldsFirstN ==
    Answered("create_quiz", 201) =>
        LET N == NumQuestions(request.body)
            M == Len(request.reply.value)
            stored == quizzes[response.body.quiz.quizId]
        IN  /\ M > N => (Len(stored.questions) = N
                         /\ \A i \in 1..Len(stored.questions) :
                               stored.questions[i] = request.reply.value[i])
            /\ M <= N => stored.questions = request.reply.value
            /\ stored.questionCount = Len(stored.questions)

\* What create_quiz does keep of C4: for N >= 1 the stored quiz is as C4 says;
\* N is never 0 (a count of 0 is taken as absent), and for a negative N the
\* stored quiz holds the first max(M + N, 0) questions.
StoredQuizHoldsFirstNOfPositiveN ==
    Answered("create_quiz", 201) =>
        LET N == NumQuestions(request.body)
            M == Len(request.reply.value)
            stored == quizzes[response.body.quiz.quizId]
        IN  /\ N # 0
            /\ (N >= 1 /\ M > N) => stored.questions = SubSeq(request.reply.value, 1, N)
            /\ (N >= 1 /\ M <= N) => stored.questions = request.reply.value
            /\ N < 0 => stored.questions = SubSeq(request.reply.value, 1, Max(M + N, 0))
            /\ stored.questionCount = Len(stored.questions)
            /\ response.body.quiz = stored

\* create_quiz answered a negative requested count with a stored quiz
C4_Witness ==
    /\ Answered("create_quiz", 201)
    /\ NumQuestions(request.body) < 0
    /\ Len(request.reply.value) >= 2
    /\ quizzes[response.body.quiz.quizId].questionCount
          = Len(request.reply.value) + NumQuestions(request.body)

Abs(x) == IF x < 0 THEN -x ELSE x

\* the attempt a successful submit_quiz has just stored
LastAttempt == quizzes[request.id].attempts[Len(quizzes[request.id].attempts)]

\* C5: the percentage returned and the percentage stored in the appended
\* attempt are score / totalQuestions * 100 rounded to one decimal (in tenths:
\* the integer nearest to 1000 * score / totalQuestions), and 0 for a quiz
\* without questions.
C5_PercentageIsRoundedToOneDecimal ==
    Answered("submit_quiz", 200) =>
        LET result == response.body.result
        IN  /\ result.totalQuestions = Len(quizzes[request.id].questions)
            /\ result.totalQuestions = 0 => result.percentage = 0
            /\ result.totalQuestions > 0 =>
                  2 * Abs(result.percentage * result.totalQuestions
                          - 1000 * result.score) <= result.totalQuestions
            /\ LastAttempt.percentage = result.percentage
            /\ LastAttempt.score = result.score
            /\ LastAttempt.totalQuestions = result.totalQuestions

C5_Witness ==
    /\ Answered("submit_quiz", 200)
    /\ response.body.result.score = 2
    /\ response.body.result.totalQuestions = 3
    /\ response.body.result.percentage = 667
    /\ LastAttempt.percentage = 667

\* C6: a successful submit_quiz says passed exactly when its percentage is at
\* least 60 (600 tenths); a quiz without questions is never passed.
C6_PassedIffAtLeastSixty ==
    Answered("submit_quiz", 200) =>
        LET result == response.body.result
        IN  /\ result.passed <=> result.percentage >= 600
            /\ result.totalQuestions = 0 => ~result.passed

C6_Witness ==
    /\ Answered("submit_quiz", 200)
    /\ response.body.result.percentage = 600
    /\ response.body.result.passed

\* C7: a submission by the owner gets the answer that an earlier submission of
\* the same answers to the same quiz got, whatever happened in between.
C7_SameAnswersSameResult ==
    (/\ request.op = "submit_quiz"
     /\ ~request.body.malformed
     /\ observed # <<>>
     /\ observed[1].quizId = request.id
     /\ observed[1].answers = request.body.answers
     /\ request.id \in DOMAIN quizzes
     /\ quizzes[request.id].userId = Caller)
    => /\ response.statusCode = observed[1].statusCode
       /\ response.body = observed[1].body

C7_Witness ==
    /\ Answered("submit_quiz", 200)
    /\ observed # <<>>
    /\ observed[1].quizId = request.id
    /\ observed[1].answers = request.body.answers
    /\ response.body.result.score = 1
    /\ Len(quizzes[request.id].attempts) = 3
    /\ quizzes[request.id].attempts[1].answers = request.body.answers
    /\ quizzes[request.id].attempts[2].answers # request.body.answers
    /\ quizzes[request.id].documentId \notin DOMAIN documents

(***************************************************************************)
(* Properties of access control and of the chat history.                   *)
(***************************************************************************)
DocumentOps ==
    {"summarize_document", "get_summary", "create_flashcards", "get_flashcards",
     "create_quiz", "chat_with_document", "get_chat_history", "get_document",
     "delete_document"}

QuizOps == {"get_quiz", "submit_quiz"}

\* a step in which a handler ran on an entity that existed and belonged to
\* somebody other than the caller
ForeignStep ==
    /\ request' # request \/ response' # response \/ tables' # tables
    /\ \/ /\ request'.op \in DocumentOps
          /\ request'.id \in DOMAIN documents
          /\ documents[request'.id].userId # get_user_id_from_event(request'.claims)
       \/ /\ request'.op \in QuizOps
          /\ request'.id \in DOMAIN quizzes
          /\ quizzes[request'.id].userId # get_user_id_from_event(request'.claims)

\* the request reaches the ownership check: its body parses and, for chat,
\* holds a question
ReachesGuard(req) ==
    /\ ~req.body.malformed
    /\ req.op = "chat_with_document" => ChatQuestion(req.body) # <<>>

\* C1 as stated: a document-scoped or quiz-scoped handler run on an entity of
\* another owner answers 403 with nothing but the error, and leaves the table
\* store and the blob store as they were.
C1_ForeignEntityIsDenied ==
    [][ForeignStep =>
          /\ response'.statusCode = 403
          /\ response'.body = ErrorBody("Access denied")
          /\ tables' = tables]_vars

\* C1 amended: such a handler answers with nothing but an error and leaves the
\* stores as they were; the answer is 403 whenever the request reaches the
\* ownership check, 500 for a body that does not parse, and 400 for a chat
\* without question.
C1_ForeignEntityIsNeverServed ==
    [][ForeignStep =>
          /\ DOMAIN response'.body = {"error"}
          /\ tables' = tables
          /\ response'.statusCode =
                IF request'.body.malformed THEN 500
                ELSE IF ReachesGuard(request') THEN 403
                ELSE 400
          /\ ReachesGuard(request') => response'.body = ErrorBody("Access denied")]_vars

C1_Witness ==
    /\ Answered("submit_quiz", 403)
    /\ request.id \in DOMAIN quizzes
    /\ quizzes[request.id].userId # Caller
    /\ quizzes[request.id].questions # <<>>

\* C10: get_chat_history by the owner returns at most ChatHistoryLimit turns of
\* the document, no turn left out is more recent than a turn returned, the
\* turns are in ascending order of createdAt, every one is the caller's, and
\* exactly ChatHistoryLimit are returned when the caller has that many.
C10_HistoryIsLatestWindowAscending ==
    Answered("get_chat_history", 200) =>
        LET history == response.body.chatHistory
            turns == ByDocument(chats, request.id)
            returned == {history[i].chatId : i \in 1..Len(history)}
        IN  /\ Len(history) <= ChatHistoryLimit
            /\ response.body.count = Len(history)
            /\ Cardinality(returned) = Len(history)
            /\ returned \subseteq turns
            /\ \A i \in 1..Len(history) : history[i] = chats[history[i].chatId]
            /\ \A k \in turns \ returned : \A i \in 1..Len(history) :
                  chats[k].createdAt <= history[i].createdAt
            /\ \A i \in 1..Len(history) : \A j \in i..Len(history) :
                  history[i].createdAt <= history[j].createdAt
            /\ \A i \in 1..Len(history) : history[i].userId = Caller
            /\ Cardinality({k \in turns : chats[k].userId = Caller}) >= ChatHistoryLimit
                  => Len(history) = ChatHistoryLimit

C10_Witness ==
    /\ Answered("get_chat_history", 200)
    /\ Cardinality(ByDocument(chats, request.id)) = ChatHistoryLimit + 1
    /\ Len(response.body.chatHistory) = ChatHistoryLimit
    /\ \E k \in ByDocument(chats, request.id) :
          /\ \A i \in 1..ChatHistoryLimit : response.body.chatHistory[i].chatId # k
          /\ chats[k].createdAt = response.body.chatHistory[1].createdAt

\* C8: for every supported extension, every input and every max_chars >= 0 the
\* text extract_text_from_file returns is at most max_chars long, and an
\* unknown extension gives the empty text.
C8_ExtractWithinMaxChars ==
    (pureOut # NoCall /\ pureOut.fn = "extract_text_from_file"
        /\ ~pureOut.result.raised)
    => /\ Len(pureOut.result.text) <= pureIn.max_chars
       /\ (Extension(pureIn.file_name) \notin
              {<<"p", "d", "f">>, <<"d", "o", "c", "x">>, <<"d", "o", "c">>,
               <<"t", "x", "t">>, <<"t", "e", "x", "t">>}
           => pureOut.result.text = <<>>)

\* C9: a payload decodes to the same value unwrapped, in a json fence, in a
\* bare fence and in a fence with another language tag.
C9_FencesDecodeAlike ==
    (pureOut # NoCall /\ pureOut.fn = "call_gpt_json")
    => pureOut.result = [ok |-> TRUE, value |-> pureIn.payload.value]

\* What call_gpt_json does keep of C9: unwrapped, json-fenced and bare-fenced
\* payloads decode to the payload's value.
JsonAndBareFencesDecodeAlike ==
    (pureOut # NoCall /\ pureOut.fn = "call_gpt_json" /\ pureIn.wrapping # "tag")
    => pureOut.result = [ok |-> TRUE, value |-> pureIn.payload.value]

(***************************************************************************)
(* Properties of concurrent submissions.                                   *)
(***************************************************************************)
\* the invocations that finish in this step with a submission to the quiz
SubmissionsWritten(quiz_id) ==
    { p \in DOMAIN calls \ DOMAIN calls' :
        calls[p].op = "submit_quiz" /\ calls[p].id = quiz_id }

AttemptsGrowByOnePerSubmission ==
    \A q \in DOMAIN quizzes :
        /\ q \in DOMAIN quizzes'
        /\ Len(quizzes'[q].attempts) =
              Len(quizzes[q].attempts) + Cardinality(SubmissionsWritten(q))
        /\ SubSeq(quizzes'[q].attempts, 1, Len(quizzes[q].attempts)) =
              quizzes[q].attempts
        /\ SubmissionsWritten(q) # {} =>
              /\ response'.statusCode = 200
              /\ request'.op = "submit_quiz" /\ request'.id = q

RefusedSubmissionWritesNothing ==
    (request'.op = "submit_quiz" /\ response'.statusCode \in {403, 404})
        => tables' = tables

\* C11: under every interleaving of concurrent invocations the attempts of a
\* quiz only grow: a step that completes a submission appends exactly one
\* attempt to the list the store holds and answers 200, every other step
\* leaves the list as it is, no quiz and no attempt is ever removed or
\* changed, and a submission answered 404 or 403 leaves the store untouched.
C11_AttemptsAreAppendOnly ==
    [][AttemptsGrowByOnePerSubmission /\ RefusedSubmissionWritesNothing]_vars

\* two submissions read the quiz before either wrote, and both attempts are
\* in the list
C11_Witness ==
    /\ observed # <<>>
    /\ observed[1].op = "submit_quiz"
    /\ calls = <<>>
    /\ \E q \in DOMAIN quizzes :
          /\ Len(quizzes[q].attempts) = 2
          /\ quizzes[q].attempts[1].attemptId # quizzes[q].attempts[2].attemptId

(***************************************************************************)
(* Properties of the artifacts of a document.                              *)
(***************************************************************************)
ReferencesOwnedDocument(table) ==
    \A k \in DOMAIN table :
        /\ table[k].documentId \in DOMAIN documents
        /\ documents[table[k].documentId].userId = table[k].userId

\* C12: every stored summary, flashcard set, quiz and chat message names a
\* document that exists and has the same owner, whatever operations ran
\* before, delete_document included.
C12_ArtifactsReferenceOwnedDocument ==
    /\ ReferencesOwnedDocument(summaries)
    /\ ReferencesOwnedDocument(flashcards)
    /\ ReferencesOwnedDocument(quizzes)
    /\ ReferencesOwnedDocument(chats)

\* the owner deleted a document that had an artifact
C12_Witness ==
    /\ request.op = "delete_document"
    /\ response.statusCode = 200
    /\ \E k \in DOMAIN summaries : summaries[k].documentId = request.id

(***************************************************************************)
(* Properties of the generators' text.                                     *)
(***************************************************************************)
Generators ==
    {"summarize_document", "create_flashcards", "create_quiz", "chat_with_document"}

\* the last request was a generator's, got to the document's text, and the
\* text cached in the document is empty
GeneratorFoundNoCachedText ==
    /\ request.op \in Generators
    /\ ~request.body.malformed
    /\ request.op = "chat_with_document" => ChatQuestion(request.body) # <<>>
    /\ Guard(documents, request.id, get_user_id_from_event(request.claims)) = 200
    /\ documents[request.id].extractedText = <<>>

\* C13: a generator that finds the cached text empty fetches the document's
\* blob to extract the text again, whichever generator it is, and answers
\* 400 only after that.
C13_EveryGeneratorFetchesTheBlob ==
    GeneratorFoundNoCachedText =>
        effects.fetched = {documents[request.id].s3Key}

\* summarize_document found the cached text empty and fetched the blob
C13_Witness ==
    /\ GeneratorFoundNoCachedText
    /\ request.op = "summarize_document"
    /\ effects.fetched = {documents[request.id].s3Key}
    /\ response.statusCode = 400

(***************************************************************************)
(* Properties of flashcard generation.                                     *)
(***************************************************************************)
\* the last request was a create_flashcards that called the model
CardsAsked == request.op = "create_flashcards" /\ effects.asked # <<>>

CardsCreated == request.op = "create_flashcards" /\ response.statusCode = 201

\* the number of cards the body asks for under either name, if any
ClientCount(body) ==
    IF body.count # {} THEN body.count ELSE body.numCards

KeepsEveryCard ==
    CardsCreated =>
        LET stored == flashcards[response.body.flashcardSet.flashcardSetId]
        IN  /\ stored.cards = request.reply.value
            /\ stored.cardCount = Len(request.reply.value)
            /\ response.body.flashcards = request.reply.value

\* C14 as stated: create_flashcards asks the model for the larger of the
\* client's count and 20, stores every card the model returned and sets
\* cardCount to their number.
C14_AsksForMaxOfCountAndDefault ==
    /\ CardsAsked =>
          effects.asked[1].count =
              IF ClientCount(request.body) = {} THEN DefaultNumCards
              ELSE Max(The(ClientCount(request.body)), DefaultNumCards)
    /\ KeepsEveryCard

\* C14 as the code has it: create_flashcards asks the model for the body's
\* count when that is given and not 0, else for its numCards when that is
\* given and not 0, else for 20; it stores every card the model returned,
\* however many were asked for, and sets cardCount to their number.
C14_AsksForCountElseDefault ==
    /\ CardsAsked =>
          effects.asked[1].count =
              IF request.body.count \notin {{}, {0}} THEN The(request.body.count)
              ELSE IF request.body.numCards \notin {{}, {0}}
              THEN The(request.body.numCards)
              ELSE DefaultNumCards
    /\ KeepsEveryCard

\* the client asked for one card, the model returned two and both are stored
C14_Witness ==
    /\ CardsCreated
    /\ request.body.count = {1}
    /\ effects.asked[1].count = 1
    /\ flashcards[response.body.flashcardSet.flashcardSetId].cardCount = 2

(***************************************************************************)
(* Properties of the shape of stored artifacts.                            *)
(***************************************************************************)
\* four options and a correct index in 0..3, under either name of the key
QuestionHasShape(q) ==
    /\ q.options # {}
    /\ Len(The(q.options)) = 4
    /\ q.correct_answer \cup q.correctAnswer # {}
    /\ q.correct_answer \cup q.correctAnswer \subseteq 0..3

CardHasShape(card) == card.front # {} /\ card.back # {}

\* C15: the decoded model output is validated before it is stored: every
\* question of a stored quiz has exactly four options and a correct index in
\* 0..3, and every card of a stored flashcard set has a front and a back.
C15_StoredArtifactsHaveShape ==
    /\ \A k \in DOMAIN quizzes : \A i \in 1..Len(quizzes[k].questions) :
          QuestionHasShape(quizzes[k].questions[i])
    /\ \A k \in DOMAIN flashcards : \A i \in 1..Len(flashcards[k].cards) :
          CardHasShape(flashcards[k].cards[i])

\* a create request whose model reply was out of shape was answered 201
C15_Witness ==
    /\ response.statusCode = 201
    /\ \/ /\ request.op = "create_quiz"
          /\ \E i \in 1..Len(request.reply.value) :
                ~QuestionHasShape(request.reply.value[i])
       \/ /\ request.op = "create_flashcards"
          /\ \E i \in 1..Len(request.reply.value) :
                ~CardHasShape(request.reply.value[i])

(***************************************************************************)
(* Properties of document deletion.                                        *)
(***************************************************************************)
\* the step handles a delete_document by the owner of the document
OwnerDeletes ==
    /\ request'.op = "delete_document"
    /\ Guard(documents, request'.id, get_user_id_from_event(request'.claims)) = 200

DeletionAcknowledged ==
    OwnerDeletes =>
        /\ request'.id \notin DOMAIN documents'
        /\ response' = create_response("delete_document", 200,
                           [message |-> "Document deleted successfully",
                            documentId |-> request'.id])

\* an id that was issued and names no document names none afterwards
DeletedStaysDeleted ==
    \A d \in 1..(nextId - 1) :
        d \notin DOMAIN documents => d \notin DOMAIN documents'

MissingIsNotFound ==
    (request'.op = "get_document" /\ request'.id \notin DOMAIN documents)
        => response'.statusCode = 404

\* C16: a delete_document by the owner removes the document's record and
\* answers the 200 acknowledgement whether or not the blob store deleted the
\* blob; the id names no document from then on, and a get_document for an id
\* that names no document answers 404.
C16_RecordDeletedDespiteBlobFailure ==
    [][DeletionAcknowledged /\ DeletedStaysDeleted /\ MissingIsNotFound]_vars

\* the blob of a deleted document is still stored, and a get_document for
\* the deleted document's id was answered 404
C16_Witness ==
    /\ documents = <<>>
    /\ blobs # <<>>
    /\ request.op = "get_document"
    /\ request.id \in 1..(nextId - 1)
    /\ \A k \in DOMAIN blobs : k.id # request.id
    /\ response.statusCode = 404

(***************************************************************************)
(* Properties of the model call of a generator.                            *)
(***************************************************************************)
\* the artifacts stored by this step
StoredByStep ==
    (DOMAIN summaries' \ DOMAIN summaries) \cup (DOMAIN flashcards' \ DOMAIN flashcards)
        \cup (DOMAIN quizzes' \ DOMAIN quizzes) \cup (DOMAIN chats' \ DOMAIN chats)

AtMostOneModelCall ==
    /\ Len(effects'.asked) <= 1
    /\ effects'.asked # <<>> => request'.op \in Generators

FailedCallStoresNothing ==
    (request'.op \in Generators /\ effects'.asked # <<>> /\ ~request'.reply.ok)
        => /\ response'.statusCode = 500
           /\ tables' = tables

StoredOnlyAfterSuccess ==
    StoredByStep # {} =>
        /\ request'.op \in Generators
        /\ Len(effects'.asked) = 1
        /\ request'.reply.ok
        /\ response'.statusCode \in {200, 201}
        /\ Cardinality(StoredByStep) = 1

\* C17: a generation request calls the model at most once; when that call
\* fails the request answers 500 and writes nothing; a summary, flashcard
\* set, quiz or chat message is stored only by a generation request whose
\* single model call succeeded.
C17_OneModelCallAndNothingStoredOnFailure ==
    [][AtMostOneModelCall /\ FailedCallStoresNothing /\ StoredOnlyAfterSuccess]_vars

\* the model call of a summarize_document failed: 500 and no summary
C17_Witness ==
    /\ request.op = "summarize_document"
    /\ Len(effects.asked) = 1
    /\ ~request.reply.ok
    /\ response.statusCode = 500
    /\ documents # <<>>
    /\ summaries = <<>>

(***************************************************************************)
(* Properties of concurrent generation.                                    *)
(***************************************************************************)
ArtifactsKept ==
    /\ \A k \in DOMAIN summaries :
          k \in DOMAIN summaries' /\ summaries'[k] = summaries[k]
    /\ \A k \in DOMAIN quizzes :
          k \in DOMAIN quizzes' /\ quizzes'[k] = quizzes[k]

\* the invocations whose generation completes in this step
GenerationsWritten ==
    { p \in DOMAIN calls \ DOMAIN calls' : calls[p].op \in Generators }

EachSuccessStoresItsOwn ==
    \A p \in GenerationsWritten :
        IF request'.reply.ok
        THEN /\ response'.statusCode \in {200, 201}
             /\ Cardinality(StoredByStep) = 1
             /\ \A k \in StoredByStep :
                   IF calls[p].op = "summarize_document"
                   THEN /\ response'.body.summary = summaries'[k]
                        /\ summaries'[k].summaryId = k
                        /\ summaries'[k].documentId = calls[p].id
                        /\ summaries'[k].content = request'.reply.value
                   ELSE /\ response'.body.quiz = quizzes'[k]
                        /\ quizzes'[k].quizId = k
                        /\ quizzes'[k].documentId = calls[p].id
        ELSE /\ response'.statusCode = 500
             /\ StoredByStep = {}

\* C18: under every interleaving of concurrent generation requests, a request
\* whose model call succeeded stores one new artifact of its own under a new
\* id and answers with it, whatever the other requests wrote since it read
\* the document; no step changes or removes an artifact stored before.
C18_ConcurrentGenerationsAreIndependent ==
    [][ArtifactsKept /\ EachSuccessStoresItsOwn]_vars

\* two summaries of one document, stored by requests of which the second to
\* write had read the document before the first wrote
C18_Witness ==
    /\ observed # <<>>
    /\ observed[1].op = "summarize_document"
    /\ calls = <<>>
    /\ \E j, k \in DOMAIN summaries :
          /\ j # k
          /\ summaries[j].documentId = summaries[k].documentId
          /\ summaries[j].userId = summaries[k].userId

(***************************************************************************)
(* Properties of the cached text of a document.                            *)
(***************************************************************************)
\* a document record stays as it is as long as it exists
DocumentsKept ==
    \A d \in DOMAIN documents \cap DOMAIN documents' : documents'[d] = documents[d]

\* a new record comes from upload_document, with the text of the upload cut
\* to UploadTextCap characters
TextWrittenByUpload ==
    \A d \in DOMAIN documents' \ DOMAIN documents :
        /\ request'.op = "upload_document"
        /\ response'.statusCode = 201
        /\ Len(documents'[d].extractedText) <= UploadTextCap
        /\ request'.body.file = {} =>
              documents'[d].extractedText =
                  SliceTo(The(request'.body.content), UploadTextCap)
        /\ request'.body.file # {} =>
              documents'[d].extractedText =
                  SliceTo(extract_text_from_file(The(request'.body.file),
                                                 documents'[d].fileName,
                                                 DefaultMaxChars).text,
                          UploadTextCap)

\* C19: the cached text of a document is written by the upload_document that
\* creates the record, cut to 50,000 characters, and no later step of any
\* handler changes it (nor any other field of the record); summarize_document
\* leaves the record as it is when it extracts the text again from the blob.
C19_ExtractedTextWrittenOnce ==
    [][DocumentsKept /\ TextWrittenByUpload]_vars

\* summarize_document extracted the text again from the blob, and the record
\* still has the empty text upload_document wrote
C19_Witness ==
    /\ request.op = "summarize_document"
    /\ request.id \in DOMAIN documents
    /\ effects.fetched = {documents[request.id].s3Key}
    /\ documents[request.id].extractedText = <<>>

(***************************************************************************)
(* Properties of the summary read back.                                    *)
(***************************************************************************)
SummaryServed == request.op = "get_summary" /\ response.statusCode = 200

\* C20: get_summary answers with one summary of the document, and no summary
\* of the document is newer than it.
C20_ServesLatestSummary ==
    SummaryServed =>
        /\ response.body.summary \in
              {summaries[k] : k \in ByDocument(summaries, request.id)}
        /\ \A k \in ByDocument(summaries, request.id) :
              summaries[k].createdAt <= response.body.summary.createdAt

\* get_summary answered for a document that has two summaries
C20_Witness ==
    /\ SummaryServed
    /\ Cardinality(ByDocument(summaries, request.id)) = 2

(***************************************************************************)
(* Properties of unauthenticated access.                                   *)
(***************************************************************************)
\* the event carries neither a sub nor a cognito:username
Unidentified(claims) == claims.sub = {} /\ claims.username = {}

\* the owner of the entity the request names, as stored before the step
OwnerOfTarget(req) ==
    IF req.op \in DocumentOps /\ req.id \in DOMAIN documents
    THEN {documents[req.id].userId}
    ELSE IF req.op \in QuizOps /\ req.id \in DOMAIN quizzes
    THEN {quizzes[req.id].userId}
    ELSE {}

\* a step in which a handler ran on an entity stored under "anonymous"
AnonymousTargetStep ==
    /\ request' # request \/ response' # response \/ tables' # tables
    /\ OwnerOfTarget(request') = {"anonymous"}

CreatedUnderSentinel ==
    \A d \in DOMAIN documents' \ DOMAIN documents :
        Unidentified(request'.claims) <=> documents'[d].userId = "anonymous"

SharedAmongUnidentified ==
    (AnonymousTargetStep /\ Unidentified(request'.claims)) =>
        /\ response'.statusCode =
              IF request'.body.malformed THEN 500
              ELSE IF request'.op = "create_quiz" THEN 201
              ELSE 200
        /\ request'.op = "delete_document" => request'.id \notin DOMAIN documents'

DeniedToIdentified ==
    (AnonymousTargetStep /\ ~Unidentified(request'.claims)) =>
        /\ DOMAIN response'.body = {"error"}
        /\ tables' = tables
        /\ response'.statusCode = IF request'.body.malformed THEN 500 ELSE 403

\* C21: a document uploaded without claims is stored under "anonymous"; every
\* request without claims, whoever sends it, is served on an entity stored
\* under "anonymous" as its owner is (read, generate, submit, delete); every
\* request whose claims name a user gets an error on it, 403 when its body
\* parses, and changes nothing.
C21_UnauthenticatedCallersShareOneIdentity ==
    [][CreatedUnderSentinel /\ SharedAmongUnidentified /\ DeniedToIdentified]_vars

\* the second client without claims deleted a document the first one uploaded
C21_Witness ==
    /\ request.op = "delete_document"
    /\ request.claims.client = "b"
    /\ Unidentified(request.claims)
    /\ response.statusCode = 200
    /\ request.id \notin DOMAIN documents

(***************************************************************************)
(* Properties of the order of writes in upload_document.                   *)
(***************************************************************************)
\* the step ends a request: it is not the first half of an upload
Answering == DOMAIN calls' \subseteq DOMAIN calls

UploadAnswered == Answering /\ request'.op = "upload_document"

\* the body holds a file with a plain-text extension whose bytes are not UTF-8
UndecodableText(body) ==
    /\ body.file # {}
    /\ Extension(GetOr(body.fileName, DefaultFileName))
          \in {<<"t", "x", "t">>, <<"t", "e", "x", "t">>}
    /\ The(body.file).format # "text"

RecordAfterBlob ==
    /\ \A d \in DOMAIN documents' \ DOMAIN documents :
          /\ documents'[d].s3Key \in DOMAIN blobs
          /\ blobs' = blobs
          /\ request'.op = "upload_document"
          /\ response'.statusCode = 201
    /\ \A d \in DOMAIN documents' : documents'[d].s3Key \in DOMAIN blobs'

FailedUploadLeavesNoRecord ==
    (UploadAnswered /\ response'.statusCode # 201) =>
        /\ response'.statusCode \in {400, 500}
        /\ documents' = documents
        /\ blobs' = blobs

UploadFailsByInput ==
    UploadAnswered =>
        IF request'.body.malformed THEN response'.statusCode = 500
        ELSE IF request'.body.file = {} /\ ~TruthyText(request'.body.content)
        THEN response'.statusCode = 400
        ELSE UndecodableText(request'.body) =>
                /\ response'.statusCode = 500
                /\ blobs' = blobs

\* C22: the record of a document is written by a step that finds the blob
\* already stored under the record's key, and every record's blob is stored;
\* an upload answered with an error (400 without file and content, 500 for a
\* text file that does not decode or a blob store failure) leaves the
\* documents and the blobs as they were.
C22_BlobIsWrittenBeforeRecord ==
    [][RecordAfterBlob /\ FailedUploadLeavesNoRecord /\ UploadFailsByInput]_vars

\* between the two writes of an upload: the blob is stored, the record is not
C22_Witness ==
    \E p \in DOMAIN calls :
        /\ calls[p].op = "upload_document"
        /\ calls[p].s3Key \in DOMAIN blobs
        /\ \A d \in DOMAIN documents : documents[d].s3Key # calls[p].s3Key

====
